---- MODULE Spec2Model ----
(***************************************************************************)
(* A model of the static front end of miniwdl: the Decl and Task nodes of  *)
(* WDL/Document.py and the grammar-tree-to-AST transformer of              *)
(* WDL/__init__.py.                                                        *)
(*                                                                         *)
(* The module holds several specifications over one set of variables, one  *)
(* per component, so that the components' state spaces add up instead of   *)
(* multiplying:                                                            *)
(*   SpecDecl       Decl.__init__ and Decl.__str__                         *)
(*   SpecTypecheck  Task.typecheck, one step per checked element           *)
(*   SpecTask       the transformer's task and meta rules                  *)
(*   SpecString     the transformer's string and command rules             *)
(*   SpecDeclRules  the transformer's declaration rules                    *)
(*   SpecCLI        main, print_error, runner_input, outline and the       *)
(*                  options written by cromwell, of WDL/CLI.py             *)
(*   SpecCoerces    the coercion relation print_error asks                 *)
(***************************************************************************)
EXTENDS Integers, Sequences, FiniteSets, TLC

VARIABLES
    declCall,   \* the arguments of the last Decl(...) construction
    declRet,    \* its outcome: the Decl, or the error raised
    task,       \* the Task under typecheck
    outer_env,  \* the environment given to Task.typecheck
    type_env,   \* typecheck's local type_env
    pc,         \* index (1-based) of the next element typecheck visits
    tcLog,      \* the elements checked so far, each with the environment used
    tcResult,   \* "running", "ok", or the error that ended typecheck
    items,      \* the sub-results handed to the transformer rule being applied
    ruleRet,    \* the outcome of that rule
    quant_warning, \* CLI.py's module-level flag of the same name
    cliCall,    \* the last call into CLI.py: the function and its arguments
    cliOut      \* what that call printed, bound, returned or exited with

declVars == <<declCall, declRet>>
tcVars == <<task, outer_env, type_env, pc, tcLog, tcResult>>
trVars == <<items, ruleRet>>
cliVars == <<quant_warning, cliCall, cliOut>>
vars == <<declVars, tcVars, trVars, cliVars>>

-----------------------------------------------------------------------------
(* Bounds of the model.                                                    *)

\* Array nesting depth of the types drawn as inputs.
MaxArrayDepth == 1

-----------------------------------------------------------------------------
(* Outcomes: a Python call either returns a value or raises an exception.  *)

None == [tag |-> "None"]

Return(v) == [ok |-> TRUE, err |-> "", val |-> v]

Raise(kind) == [ok |-> FALSE, err |-> kind, val |-> None]

-----------------------------------------------------------------------------
(* WDL.Type: a type is Array^depth[base] and carries the two quantifier     *)
(* flags, both unset unless a caller sets them. The item types of an Array   *)
(* are held without quantifiers.                                             *)

BaseNames == {"Int", "Float", "Boolean", "String"}

Ty(b, d) == [base |-> b, depth |-> d, optional |-> FALSE, nonempty |-> FALSE]

\* T.Array(item_type)
TArray(t) == Ty(t.base, t.depth + 1)

\* ty.item_type
ItemType(t) == Ty(t.base, t.depth - 1)

IsArray(t) == t.depth > 0

Types == {Ty(b, d) : b \in BaseNames, d \in 0..MaxArrayDepth}

\* The types with a quantifier set on them as well: `?` on any type, `+` on
\* an Array.
QuantTypes ==
    Types \cup {[t EXCEPT !.optional = TRUE] : t \in Types}
          \cup {[t EXCEPT !.nonempty = TRUE] : t \in {u \in Types : IsArray(u)}}

TInt == Ty("Int", 0)

TFloat == Ty("Float", 0)

TString == Ty("String", 0)

TBoolean == Ty("Boolean", 0)

-----------------------------------------------------------------------------
(* WDL.Error.SourcePosition and the names and expressions drawn as inputs. *)

Pos(l, c, el, ec) == [line |-> l, column |-> c, end_line |-> el, end_column |-> ec]

Positions == {Pos(1, 1, 1, 6), Pos(2, 3, 2, 9)}

Names == {"a", "b"}

Ident(n) == [tag |-> "Ident", name |-> n]

-----------------------------------------------------------------------------
(* Python values: numbers, booleans, strings, lists and dicts. A str is a  *)
(* sequence of characters, a dict a function of its keys.                  *)

PyInt(i) == [py |-> "int", v |-> i]

PyFloat(x) == [py |-> "float", v |-> x]

PyBool(b) == [py |-> "bool", v |-> b]

PyStr(chars) == [py |-> "str", v |-> chars]

PyList(xs) == [py |-> "list", v |-> xs]

PyDict(f) == [py |-> "dict", v |-> f]

\* d[k] = v on a dict held as a function.
DictSet(d, k, v) == [x \in (DOMAIN d) \cup {k} |-> IF x = k THEN v ELSE d[x]]

\* d.get(k, default)
DictGet(d, k, default) == IF k \in DOMAIN d THEN d[k] ELSE default

-----------------------------------------------------------------------------
(* Document.py: Decl                                                       *)

\* A plausible slip: the quantifier check left out of the constructor.
DeclInitUnchecked(pos, type, name, optional, nonempty, expr) ==
    Return([pos |-> pos, type |-> type, name |-> name, optional |-> optional,
            nonempty |-> nonempty, expr |-> expr])

\* Decl.__init__: stores the fields, then raises IncompatibleOperand when
\* nonempty is set on a type that is not an Array.
DeclInit(pos, type, name, optional, nonempty, expr) ==
    IF nonempty /\ ~IsArray(type)
    THEN Raise("IncompatibleOperand")
    ELSE Return([pos |-> pos, type |-> type, name |-> name, optional |-> optional,
                 nonempty |-> nonempty, expr |-> expr])

\* A caller constructs a Decl.
NewDecl ==
    \E pos \in Positions, type \in Types, name \in Names,
       optional \in BOOLEAN, nonempty \in BOOLEAN,
       expr \in {None} \cup {Ident(n) : n \in Names} :
        /\ declCall' = [tag |-> "Decl", pos |-> pos, type |-> type, name |-> name,
                        optional |-> optional, nonempty |-> nonempty, expr |-> expr]
        /\ declRet' = DeclInit(pos, type, name, optional, nonempty, expr)
        /\ UNCHANGED <<tcVars, trVars, cliVars>>

\* str(type): the base name, wrapped in Array[...] once per level, followed
\* by the quantifiers the type itself carries.
BaseStr(b) ==
    CASE b = "Int" -> <<"I", "n", "t">>
      [] b = "Float" -> <<"F", "l", "o", "a", "t">>
      [] b = "Boolean" -> <<"B", "o", "o", "l", "e", "a", "n">>
      [] b = "String" -> <<"S", "t", "r", "i", "n", "g">>

RECURSIVE TypeStrBare(_)
TypeStrBare(t) ==
    IF t.depth = 0 THEN BaseStr(t.base)
    ELSE <<"A", "r", "r", "a", "y", "[">> \o TypeStrBare(ItemType(t)) \o <<"]">>

TypeStr(t) ==
    TypeStrBare(t) \o (IF t.nonempty THEN <<"+">> ELSE <<>>)
        \o (IF t.optional THEN <<"?">> ELSE <<>>)

\* str(expr) of an identifier: its name.
ExprStr(e) == <<e.name>>

\* Decl.__str__: "{type} {name}", and " = {expr}" after it when the Decl has
\* an expression. The Decl's own optional and nonempty are not used.
__str__(self) ==
    IF self.expr = None
    THEN TypeStr(self.type) \o <<" ">> \o <<self.name>>
    ELSE TypeStr(self.type) \o <<" ">> \o <<self.name>> \o <<" ", "=", " ">>
             \o ExprStr(self.expr)

\* A caller renders the Decl just constructed.
DeclStr ==
    /\ declCall # None
    /\ declCall.tag = "Decl"
    /\ declRet.ok
    /\ declCall' = [declCall EXCEPT !.tag = "__str__"]
    /\ declRet' = [ok |-> TRUE, err |-> "", val |-> declRet.val, str |-> __str__(declRet.val)]
    /\ UNCHANGED <<tcVars, trVars, cliVars>>

\* A plausible slip: bind storing the expression in the receiver and
\* returning the receiver itself.
bind_InPlace(self, expr) ==
    [ret |-> Return([self EXCEPT !.expr = expr]), self |-> [self EXCEPT !.expr = expr]]

\* Decl.bind: a new Decl built by the constructor from the receiver's fields
\* and the given expression. `ret` is what the call returns or raises, `self`
\* the receiver as the call leaves it: bind assigns to no field of it.
bind(self, expr) ==
    [ret |-> DeclInit(self.pos, self.type, self.name, self.optional, self.nonempty, expr),
     self |-> self]

-----------------------------------------------------------------------------
(* WDL.Expr: the type environment and the two-phase type protocol.        *)

\* An environment is the chain of its bindings, the most recent first.
Binding(n, t) == [name |-> n, type |-> t]

\* E.TypeEnv(binding, parent): a new environment, the binding in front of
\* the parent chain. The parent is not changed.
TypeEnvBind(b, env) == <<b>> \o env

EnvNames(env) == {env[i].name : i \in 1..Len(env)}

\* env[name]: the most recently bound type of the name.
Lookup(env, n) ==
    IF n \in EnvNames(env)
    THEN Return(env[CHOOSE i \in 1..Len(env) :
                      /\ env[i].name = n
                      /\ \A j \in 1..(i - 1) : env[j].name # n].type)
    ELSE Raise("UnknownIdentifier")

\* A plausible slip: the two numeric types coercing to each other.
Coerces_NumericBothWays(actual, expected, check_quant) ==
    \/ actual = expected
    \/ actual \in {TInt, TFloat} /\ expected \in {TInt, TFloat}
    \/ ~check_quant /\ expected = TArray(actual)
    \/ ~check_quant /\ actual.optional

\* A plausible slip: a bare T promoted to Array[T] whatever check_quant is.
Coerces_AlwaysPromote(actual, expected, check_quant) ==
    \/ actual = expected
    \/ actual = TInt /\ expected = TFloat
    \/ expected = TArray(actual)
    \/ ~check_quant /\ actual.optional

\* actual.coerces(expected, check_quant): identity, Int to Float, and with
\* check_quant=false a bare T to Array[T] and an optional T? to anything.
Coerces(actual, expected, check_quant) ==
    \/ actual = expected
    \/ actual = TInt /\ expected = TFloat
    \/ ~check_quant /\ expected = TArray(actual)
    \/ ~check_quant /\ actual.optional

TextPart(s) == [tag |-> "text", text |-> s]

Placeholder(pos, options, expr) ==
    [tag |-> "Placeholder", pos |-> pos, options |-> options, expr |-> expr]

StringExpr(pos, parts) == [tag |-> "String", pos |-> pos, parts |-> parts]

PlaceholderParts(parts) == SelectSeq(parts, LAMBDA p : p.tag = "Placeholder")

\* expr.infer_type(env): a literal has its own type; an Ident is looked up
\* in env; a Placeholder infers
\* its expression; a String infers every placeholder of its parts and is a
\* String.
RECURSIVE InferType(_, _)
InferType(expr, env) ==
    CASE expr.tag = "Ident" -> Lookup(env, expr.name)
      [] expr.tag = "Int" -> Return(TInt)
      [] expr.tag = "Float" -> Return(TFloat)
      [] expr.tag = "Boolean" -> Return(TBoolean)
      [] expr.tag = "Placeholder" -> InferType(expr.expr, env)
      [] expr.tag = "String" ->
            LET phs == PlaceholderParts(expr.parts)
                bad == {i \in 1..Len(phs) : ~InferType(phs[i], env).ok}
            IN IF bad = {}
               THEN Return(TString)
               ELSE InferType(phs[CHOOSE i \in bad : \A j \in bad : i <= j], env)

\* expr.infer_type(env).typecheck(expected)
Typecheck(expr, env, expected) ==
    LET inf == InferType(expr, env)
    IN IF ~inf.ok THEN inf
       ELSE IF Coerces(inf.val, expected, TRUE) THEN Return(None)
       ELSE Raise("StaticTypeMismatch")

\* The types the references of a node were resolved to, up to the first one
\* that fails (each infer_type memoizes its result on the node it is called
\* on).
Inferred(expr, env) ==
    CASE expr.tag = "String" ->
            LET phs == PlaceholderParts(expr.parts)
                bad == {i \in 1..Len(phs) : ~InferType(phs[i], env).ok}
                n == IF bad = {} THEN Len(phs) ELSE CHOOSE i \in bad : \A j \in bad : i <= j
            IN [i \in 1..n |-> InferType(phs[i], env)]
      [] expr.tag = "None" -> <<>>
      [] OTHER -> <<InferType(expr, env)>>

-----------------------------------------------------------------------------
(* Document.py: Task.typecheck                                             *)

\* Bound on len(inputs) + len(postinputs) + len(outputs) of the task drawn.
MaxDecls == 2

TcTypes == {TInt, TString}

TcExprs == {None} \cup {Ident(n) : n \in Names}

TcPos == Pos(1, 1, 1, 6)

TcDecls ==
    {DeclInit(TcPos, t, n, FALSE, FALSE, e).val : t \in TcTypes, n \in Names, e \in TcExprs}

TcCommands ==
    { StringExpr(TcPos, <<>>),
      StringExpr(TcPos, <<TextPart(<<"e">>), Placeholder(TcPos, <<>>, Ident("a"))>>),
      StringExpr(TcPos, <<Placeholder(TcPos, <<>>, Ident("b")), TextPart(<<"e">>)>>) }

TcOuterEnvs == {<<>>, <<Binding("a", TString)>>}

SeqsUpTo(S, n) == UNION {[1..k -> S] : k \in 0..n}

\* Task.__init__
TaskInit(pos, name, inputs, postinputs, command, outputs, parameter_meta, runtime, meta) ==
    [pos |-> pos, name |-> name, inputs |-> inputs, postinputs |-> postinputs,
     command |-> command, outputs |-> outputs, parameter_meta |-> parameter_meta,
     runtime |-> runtime, meta |-> meta]

DeclElem(section, k, d) == [kind |-> "decl", section |-> section, k |-> k, node |-> d]

CommandElem(c) == [kind |-> "command", section |-> "command", k |-> 1, node |-> c]

SectionElems(section, ds) == [k \in 1..Len(ds) |-> DeclElem(section, k, ds[k])]

\* A plausible slip: the command checked last, after the outputs.
TypecheckOrderCommandLast(t) ==
    SectionElems("inputs", t.inputs) \o SectionElems("postinputs", t.postinputs)
        \o SectionElems("outputs", t.outputs) \o <<CommandElem(t.command)>>

\* A plausible slip: the outputs folded right after the inputs.
TypecheckOrderOutputsEarly(t) ==
    SectionElems("inputs", t.inputs) \o SectionElems("outputs", t.outputs)
        \o SectionElems("postinputs", t.postinputs) \o <<CommandElem(t.command)>>

\* The elements typecheck visits, in its order: the loop over
\* inputs+postinputs, the command, the loop over outputs.
TypecheckOrder(t) ==
    SectionElems("inputs", t.inputs) \o SectionElems("postinputs", t.postinputs)
        \o <<CommandElem(t.command)>> \o SectionElems("outputs", t.outputs)

\* A plausible slip: the name bound only when the declaration has an expression.
_typecheck_decl_BindOnlyBound(decl, env) ==
    IF decl.expr # None
    THEN LET chk == Typecheck(decl.expr, env, decl.type)
         IN [ok |-> chk.ok, err |-> chk.err,
             val |-> IF chk.ok THEN TypeEnvBind(Binding(decl.name, decl.type), env) ELSE None,
             env |-> env, inferred |-> Inferred(decl.expr, env)]
    ELSE [ok |-> TRUE, err |-> "", val |-> env, env |-> env, inferred |-> <<>>]

\* A plausible slip: the name bound before its own expression is checked.
_typecheck_decl_BindFirst(decl, env) ==
    LET env1 == TypeEnvBind(Binding(decl.name, decl.type), env)
        chk == IF decl.expr # None THEN Typecheck(decl.expr, env1, decl.type) ELSE Return(None)
    IN [ok |-> chk.ok, err |-> chk.err,
        val |-> IF chk.ok THEN env1 ELSE None,
        env |-> env1, inferred |-> Inferred(decl.expr, env1)]

\* A plausible slip: the expression inferred but never checked against the
\* declared type.
_typecheck_decl_InferOnly(decl, env) ==
    LET chk == IF decl.expr # None THEN InferType(decl.expr, env) ELSE Return(None)
    IN [ok |-> chk.ok, err |-> chk.err,
        val |-> IF chk.ok THEN TypeEnvBind(Binding(decl.name, decl.type), env) ELSE None,
        env |-> env, inferred |-> Inferred(decl.expr, env)]

\* A plausible slip: the new binding taking the place of an earlier binding
\* of the same name instead of going in front of it.
_typecheck_decl_Rebind(decl, env) ==
    LET chk == IF decl.expr # None THEN Typecheck(decl.expr, env, decl.type) ELSE Return(None)
    IN [ok |-> chk.ok, err |-> chk.err,
        val |-> IF chk.ok
                THEN TypeEnvBind(Binding(decl.name, decl.type),
                                 SelectSeq(env, LAMBDA b : b.name # decl.name))
                ELSE None,
        env |-> env, inferred |-> Inferred(decl.expr, env)]

\* _typecheck_decl(decl, type_env): checks the expression, when there is one,
\* against the declared type in type_env, then returns type_env extended with
\* (name, type). env is the environment the expression was inferred in and
\* inferred the types memoized on the expression.
_typecheck_decl(decl, env) ==
    LET chk == IF decl.expr # None THEN Typecheck(decl.expr, env, decl.type) ELSE Return(None)
    IN [ok |-> chk.ok, err |-> chk.err,
        val |-> IF chk.ok THEN TypeEnvBind(Binding(decl.name, decl.type), env) ELSE None,
        env |-> env, inferred |-> Inferred(decl.expr, env)]

\* self.command.infer_type(type_env).typecheck(T.String()); the environment
\* is left as it is.
_typecheck_command(command, env) ==
    LET chk == Typecheck(command, env, TString)
    IN [ok |-> chk.ok, err |-> chk.err,
        val |-> IF chk.ok THEN env ELSE None,
        env |-> env, inferred |-> Inferred(command, env)]

\* typecheck is entered: type_env is the given environment (an empty one
\* when none is given).
TypecheckCall ==
    /\ tcResult = "idle"
    /\ tcResult' = "running"
    /\ type_env' = outer_env
    /\ pc' = 1
    /\ UNCHANGED <<task, outer_env, tcLog>>
    /\ UNCHANGED <<declVars, trVars, cliVars>>

\* The element typecheck is at.
CurElem == TypecheckOrder(task)[pc]

LogEntry(e, r) ==
    [kind |-> e.kind, section |-> e.section, k |-> e.k, node |-> e.node, env |-> r.env,
     inferred |-> r.inferred, ok |-> r.ok, err |-> r.err]

\* How the call goes on after a check with outcome r: an exception ends it
\* with the error, the last element's success with a normal return.
ResultAfter(r) ==
    IF ~r.ok THEN r.err
    ELSE IF pc = Len(TypecheckOrder(task)) THEN "ok" ELSE "running"

\* One iteration of a declaration loop: type_env = _typecheck_decl(decl, type_env).
TypecheckDecl ==
    /\ tcResult = "running"
    /\ pc <= Len(TypecheckOrder(task))
    /\ CurElem.kind = "decl"
    /\ LET r == _typecheck_decl(CurElem.node, type_env)
       IN /\ tcLog' = Append(tcLog, LogEntry(CurElem, r))
          /\ type_env' = IF r.ok THEN r.val ELSE type_env
          /\ pc' = IF r.ok THEN pc + 1 ELSE pc
          /\ tcResult' = ResultAfter(r)
    /\ UNCHANGED <<task, outer_env>>
    /\ UNCHANGED <<declVars, trVars, cliVars>>

\* The check of the command against String.
TypecheckCommand ==
    /\ tcResult = "running"
    /\ pc <= Len(TypecheckOrder(task))
    /\ CurElem.kind = "command"
    /\ LET r == _typecheck_command(CurElem.node, type_env)
       IN /\ tcLog' = Append(tcLog, LogEntry(CurElem, r))
          /\ pc' = IF r.ok THEN pc + 1 ELSE pc
          /\ tcResult' = ResultAfter(r)
    /\ UNCHANGED <<task, outer_env, type_env>>
    /\ UNCHANGED <<declVars, trVars, cliVars>>

-----------------------------------------------------------------------------
(* __init__.py: the string and command rules.                              *)

\* Bound on the characters of literal text in front of a token's marker.
MaxTextLen == 1

\* Bound on the items handed to the string or the command rule.
MaxStrItems == 2

Chars == {"a", "$", "{"}

\* The interpolation-open marker.
Marker == <<"$", "{">>

HasMarker(text) ==
    \E i \in 1..(Len(text) - 1) : text[i] = Marker[1] /\ text[i + 1] = Marker[2]

\* Literal text as the grammar's character classes let it through: without
\* the marker.
Texts == {t \in SeqsUpTo(Chars, MaxTextLen) : ~HasMarker(t)}

Token(type, value) == [tag |-> "Token", type |-> type, value |-> value]

FragmentTypes == {"STRING1_FRAGMENT", "COMMAND1_FRAGMENT"}

\* item.type.endswith("_FRAGMENT")
EndsWithFragment(type) == type \in FragmentTypes

\* A fragment token is literal text followed by the marker; an end token is
\* literal text.
StringTokens ==
    {Token("STRING1_FRAGMENT", t \o Marker) : t \in Texts}
        \cup {Token("STRING1_END", t) : t \in Texts}

CommandTokens ==
    {Token("COMMAND1_FRAGMENT", t \o Marker) : t \in Texts}
        \cup {Token("COMMAND1_END", t) : t \in Texts}

\* The expressions the expression rules have already rewritten.
ExprNode(pos, n) == [tag |-> "Ident", pos |-> pos, name |-> n]

ExprItems == {ExprNode(p, "a") : p \in Positions}

IsExpr(item) == item.tag \in {"Ident", "Int", "Float", "Boolean", "String", "Placeholder"}

IsPlaceholder(item) == item.tag = "Placeholder"

\* value[:-2]
DropLast2(value) == SubSeq(value, 1, Len(value) - 2)

\* A plausible slip: only one character taken off a fragment.
StringPartDropOne(item) ==
    IF IsExpr(item) THEN Placeholder(item.pos, <<>>, item)
    ELSE IF EndsWithFragment(item.type) THEN TextPart(SubSeq(item.value, 1, Len(item.value) - 1))
    ELSE TextPart(item.value)

\* The body of the string rule's loop: the part stored for one item.
StringPart(item) ==
    IF IsExpr(item) THEN Placeholder(item.pos, <<>>, item)
    ELSE IF EndsWithFragment(item.type) THEN TextPart(DropLast2(item.value))
    ELSE TextPart(item.value)

\* The body of the command rule's loop.
CommandPart(item) ==
    IF IsPlaceholder(item) THEN item
    ELSE IF EndsWithFragment(item.type) THEN TextPart(DropLast2(item.value))
    ELSE TextPart(item.value)

sp(meta) == Pos(meta.line, meta.column, meta.end_line, meta.end_column)

\* _ExprTransformer.string
string(its, meta) ==
    Return(StringExpr(sp(meta), [i \in 1..Len(its) |-> StringPart(its[i])]))

\* A single-key dict, as the section rules return it.
Fragment(k, v) == [tag |-> "dict", key |-> k, val |-> v]

\* _TaskTransformer.command
command(its, meta) ==
    Return(Fragment("command", StringExpr(sp(meta), [i \in 1..Len(its) |-> CommandPart(its[i])])))

\* _TaskTransformer.placeholder, without options
placeholder(its, meta) == Placeholder(sp(meta), <<>>, its[Len(its)])

PlaceholderItems == {placeholder(<<e>>, e.pos) : e \in ExprItems}

\* Nothing has been handed to a rule yet.
InitString ==
    /\ items = <<>>
    /\ ruleRet = None
    /\ declCall = None
    /\ declRet = None
    /\ task = None
    /\ outer_env = <<>>
    /\ type_env = <<>>
    /\ pc = 0
    /\ tcLog = <<>>
    /\ tcResult = "idle"
    /\ quant_warning = FALSE
    /\ cliCall = None
    /\ cliOut = None

\* The parser hands the next child of a string literal to the rule.
StringChild ==
    /\ ruleRet = None
    /\ Len(items) < MaxStrItems
    /\ \A i \in 1..Len(items) : items[i] \in StringTokens \cup ExprItems
    /\ \E it \in StringTokens \cup ExprItems : items' = Append(items, it)
    /\ UNCHANGED <<ruleRet, declVars, tcVars, cliVars>>

\* The parser hands the next child of a command to the rule.
CommandChild ==
    /\ ruleRet = None
    /\ Len(items) < MaxStrItems
    /\ \A i \in 1..Len(items) : items[i] \in CommandTokens \cup PlaceholderItems
    /\ \E it \in CommandTokens \cup PlaceholderItems : items' = Append(items, it)
    /\ UNCHANGED <<ruleRet, declVars, tcVars, cliVars>>

\* The string rule is applied to the children of a string literal.
StringRule ==
    /\ ruleRet = None
    /\ \A i \in 1..Len(items) : items[i] \in StringTokens \cup ExprItems
    /\ \E meta \in Positions : ruleRet' = [rule |-> "string", ret |-> string(items, meta)]
    /\ UNCHANGED <<items, declVars, tcVars, cliVars>>

\* The command rule is applied to the children of a command.
CommandRule ==
    /\ ruleRet = None
    /\ \A i \in 1..Len(items) : items[i] \in CommandTokens \cup PlaceholderItems
    /\ \E meta \in Positions : ruleRet' = [rule |-> "command", ret |-> command(items, meta)]
    /\ UNCHANGED <<items, declVars, tcVars, cliVars>>

NextString == StringChild \/ CommandChild \/ StringRule \/ CommandRule

SpecString == InitString /\ [][NextString]_vars

-----------------------------------------------------------------------------
(* __init__.py: the meta rules and the task rule.                          *)

\* Bound on the sub-results handed to the task rule.
MaxTaskItems == 3

\* A parse-tree node: a rule name and its children.
Tree(data, children) == [tag |-> "Tree", data |-> data, children |-> children]

\* Literal expression nodes, as the expression rules return them.
IntLit(pos, i) == [tag |-> "Int", pos |-> pos, value |-> i]

BoolLit(pos, b) == [tag |-> "Boolean", pos |-> pos, value |-> b]

RECURSIVE Concat(_)
Concat(seqs) == IF seqs = <<>> THEN <<>> ELSE Head(seqs) \o Concat(Tail(seqs))

\* expr.eval(Env()).value of a literal: the Python value it denotes; a
\* String is the concatenation of its text.
EvalValue(expr) ==
    CASE expr.tag = "Int" -> PyInt(expr.value)
      [] expr.tag = "Float" -> PyFloat(expr.value)
      [] expr.tag = "Boolean" -> PyBool(expr.value)
      [] expr.tag = "String" ->
            PyStr(Concat([i \in 1..Len(expr.parts) |->
                            IF expr.parts[i].tag = "text" THEN expr.parts[i].text ELSE <<>>]))

\* A plausible slip: the literal returned as the expression it was parsed to.
meta_literal_Unevaluated(its, meta) ==
    LET inf == InferType(its[1], <<>>)
    IN IF ~inf.ok THEN inf ELSE Return(its[1])

\* _TaskTransformer.meta_literal: infers the literal's type in an empty
\* environment, evaluates it and returns the plain value.
meta_literal(its, meta) ==
    LET inf == InferType(its[1], <<>>)
    IN IF ~inf.ok THEN inf ELSE Return(EvalValue(its[1]))

\* _TaskTransformer.meta_kv
meta_kv(its, meta) == Return(<<its[1].value, its[2]>>)

\* The loop of meta_object: a key met twice fails the assertion.
RECURSIVE MetaObjectFrom(_, _, _)
MetaObjectFrom(its, i, d) ==
    IF i > Len(its) THEN Return(PyDict(d))
    ELSE IF its[i][1] \in DOMAIN d THEN Raise("AssertionError")
    ELSE MetaObjectFrom(its, i + 1, DictSet(d, its[i][1], its[i][2]))

\* _TaskTransformer.meta_object
meta_object(its, meta) == MetaObjectFrom(its, 1, <<>>)

\* _TaskTransformer.meta_array
meta_array(its, meta) == Return(PyList(its))

\* _TaskTransformer.meta_section
meta_section(its, meta) == Return(Fragment(its[1].value, its[2]))

\* lark's Transformer on a meta subtree: the children are rewritten first,
\* left to right, then the node's rule is applied to their results; the
\* first exception ends the transformation. Tokens and expression nodes are
\* left as they are.
RECURSIVE Transform(_)
Transform(t) ==
    IF t.tag # "Tree" THEN Return(t)
    ELSE LET kids == [i \in 1..Len(t.children) |-> Transform(t.children[i])]
             bad == {i \in 1..Len(kids) : ~kids[i].ok}
             its == [i \in 1..Len(kids) |-> kids[i].val]
         IN IF bad # {} THEN kids[CHOOSE i \in bad : \A j \in bad : i <= j]
            ELSE CASE t.data = "meta_literal" -> meta_literal(its, TcPos)
                   [] t.data = "meta_kv" -> meta_kv(its, TcPos)
                   [] t.data = "meta_object" -> meta_object(its, TcPos)
                   [] t.data = "meta_array" -> meta_array(its, TcPos)
                   [] t.data = "meta_section" -> meta_section(its, TcPos)

Lit(e) == Tree("meta_literal", <<e>>)

KV(k, v) == Tree("meta_kv", <<Token("CNAME", k), v>>)

Obj(kvs) == Tree("meta_object", kvs)

Arr(vs) == Tree("meta_array", vs)

\* The meta objects drawn: empty, flat, nested three deep, one with a
\* string whose placeholder names an identifier, one with a repeated key.
MetaObjects ==
    { Obj(<<>>),
      Obj(<<KV("k", Lit(IntLit(TcPos, 1)))>>),
      Obj(<<KV("k", Lit(IntLit(TcPos, 2))),
            KV("j", Arr(<<Lit(StringExpr(TcPos, <<TextPart(<<"a">>)>>)),
                          Obj(<<KV("k", Lit(BoolLit(TcPos, TRUE)))>>)>>))>>),
      Obj(<<KV("k", Lit(StringExpr(TcPos, <<TextPart(<<"a">>),
                                            Placeholder(TcPos, <<>>, ExprNode(TcPos, "a"))>>)))>>),
      Obj(<<KV("k", Lit(IntLit(TcPos, 1))), KV("k", Lit(IntLit(TcPos, 2)))>>) }

MetaKinds == {"meta", "parameter_meta", "runtime"}

TaskNames == {"t", "u"}

\* _TaskTransformer.input_decls
input_decls(its, meta) == Return(Fragment("inputs", its))

\* _TaskTransformer.noninput_decls
noninput_decls(its, meta) == Return(Fragment("decls", its))

\* _TaskTransformer.output_decls
output_decls(its, meta) == Return(Fragment("outputs", its))

\* _TaskTransformer.decl
decl(its, meta) == DeclInit(sp(meta), its[1], its[2].value, FALSE, FALSE, None)

\* A plausible slip: the quantified declaration rule without its final
\* else branch, an unexpected token leaving both flags unset.
quantified_decl_NoElse(its, meta) ==
    IF Len(its) # 3 THEN Raise("AssertionError")
    ELSE IF its[3].type # "CNAME" THEN Raise("AssertionError")
    ELSE DeclInit(sp(meta), its[1], its[3].value, its[2].value = "?", its[2].value = "+", None)

\* _TaskTransformer.quantified_decl
quantified_decl(its, meta) ==
    IF Len(its) # 3 THEN Raise("AssertionError")
    ELSE IF its[2].value \notin {"?", "+"} THEN Raise("AssertionError")
    ELSE IF its[3].type # "CNAME" THEN Raise("AssertionError")
    ELSE DeclInit(sp(meta), its[1], its[3].value, its[2].value = "?", its[2].value = "+", None)

\* _TaskTransformer.bound_decl: the rule's own meta is not used.
bound_decl(its, meta) ==
    IF Len(its) # 2 THEN [ret |-> Raise("AssertionError"), self |-> None]
    ELSE bind(its[1], its[2])

\* A plausible slip: the loop of the task rule without its assertions, a
\* later section or name replacing an earlier one.
RECURSIVE TaskSectionsOverwrite(_, _, _)
TaskSectionsOverwrite(its, i, d) ==
    IF i > Len(its) THEN Return(d)
    ELSE IF its[i].tag = "dict"
    THEN TaskSectionsOverwrite(its, i + 1, DictSet(d, its[i].key, its[i].val))
    ELSE TaskSectionsOverwrite(its, i + 1, DictSet(d, "name", its[i].value))

\* The loop of the task rule: a section key met twice, or a second name
\* token, fails the assertion.
RECURSIVE TaskSections(_, _, _)
TaskSections(its, i, d) ==
    IF i > Len(its) THEN Return(d)
    ELSE IF its[i].tag = "dict"
    THEN IF its[i].key \in DOMAIN d THEN Raise("AssertionError")
         ELSE TaskSections(its, i + 1, DictSet(d, its[i].key, its[i].val))
    ELSE IF its[i].tag # "Token" THEN Raise("AssertionError")
    ELSE IF "name" \in DOMAIN d THEN Raise("AssertionError")
    ELSE TaskSections(its, i + 1, DictSet(d, "name", its[i].value))

\* _TaskTransformer.task: merges the sub-results into d, then builds the
\* Task; d["name"] and d["command"] raise KeyError when the key is missing.
taskRule(its, meta) ==
    LET r == TaskSections(its, 1, <<>>)
        d == r.val
    IN IF ~r.ok THEN r
       ELSE IF "name" \notin DOMAIN d \/ "command" \notin DOMAIN d THEN Raise("KeyError")
       ELSE Return(TaskInit(sp(meta), d["name"], DictGet(d, "inputs", <<>>),
                            DictGet(d, "decls", <<>>), d["command"],
                            DictGet(d, "outputs", <<>>),
                            DictGet(d, "parameter_meta", PyDict(<<>>)),
                            DictGet(d, "runtime", PyDict(<<>>)),
                            DictGet(d, "meta", PyDict(<<>>))))

\* The except clause of main: the kinds of error it reports before exiting
\* with status 2.
CaughtByMain == {"SyntaxError", "ImportError", "ValidationError", "MultipleValidationErrors"}

\* The error classes: the position-carrying semantic faults are
\* ValidationErrors; AssertionError and KeyError are Python's own.
BaseClass(kind) ==
    IF kind \in {"UnknownIdentifier", "StaticTypeMismatch", "IncompatibleOperand",
                 "NoSuchFunction", "WrongArity"}
    THEN "ValidationError"
    ELSE kind

\* The exit status of main when the command raises an error of this kind;
\* an exception main does not catch ends the interpreter with status 1.
MainExit(kind) == IF BaseClass(kind) \in CaughtByMain THEN 2 ELSE 1

\* The parser has matched nothing of the task yet.
InitTask ==
    /\ items = <<>>
    /\ ruleRet = None
    /\ declCall = None
    /\ declRet = None
    /\ task = None
    /\ outer_env = <<>>
    /\ type_env = <<>>
    /\ pc = 0
    /\ tcLog = <<>>
    /\ tcResult = "idle"
    /\ quant_warning = FALSE
    /\ cliCall = None
    /\ cliOut = None

\* A rule's result becomes the next child of the task; an exception ends the
\* transformation.
CanDeliver == ruleRet = None /\ Len(items) < MaxTaskItems

ItemsWith(r) == IF r.ok THEN Append(items, r.val) ELSE items

RetWith(rule, r) == IF r.ok THEN ruleRet ELSE [rule |-> rule, ret |-> r]

\* The task's name token.
NameToken ==
    /\ CanDeliver
    /\ \E n \in TaskNames : items' = Append(items, Token("CNAME", n))
    /\ UNCHANGED <<ruleRet, declVars, tcVars, cliVars>>

InputSection ==
    /\ CanDeliver
    /\ \E ds \in {<<>>, <<decl(<<TInt, Token("CNAME", "a")>>, TcPos).val>>} :
          LET r == input_decls(ds, TcPos)
          IN items' = ItemsWith(r) /\ ruleRet' = RetWith("input_decls", r)
    /\ UNCHANGED <<declVars, tcVars, cliVars>>

NonInputSection ==
    /\ CanDeliver
    /\ LET r == noninput_decls(<<decl(<<TString, Token("CNAME", "b")>>, TcPos).val>>, TcPos)
       IN items' = ItemsWith(r) /\ ruleRet' = RetWith("noninput_decls", r)
    /\ UNCHANGED <<declVars, tcVars, cliVars>>

OutputSection ==
    /\ CanDeliver
    /\ LET r == output_decls(<<decl(<<TInt, Token("CNAME", "a")>>, TcPos).val>>, TcPos)
       IN items' = ItemsWith(r) /\ ruleRet' = RetWith("output_decls", r)
    /\ UNCHANGED <<declVars, tcVars, cliVars>>

CommandSection ==
    /\ CanDeliver
    /\ \E its \in {<<Token("COMMAND1_END", <<"a">>)>>,
                   <<Token("COMMAND1_FRAGMENT", Marker),
                     placeholder(<<ExprNode(TcPos, "a")>>, TcPos),
                     Token("COMMAND1_END", <<>>)>>} :
          LET r == command(its, TcPos)
          IN items' = ItemsWith(r) /\ ruleRet' = RetWith("command", r)
    /\ UNCHANGED <<declVars, tcVars, cliVars>>

MetaSection ==
    /\ CanDeliver
    /\ \E kind \in MetaKinds, o \in MetaObjects :
          LET r == Transform(Tree("meta_section", <<Token("KIND", kind), o>>))
          IN items' = ItemsWith(r) /\ ruleRet' = RetWith("meta_section", r)
    /\ UNCHANGED <<declVars, tcVars, cliVars>>

\* The task rule is applied to the children collected.
TaskRule ==
    /\ ruleRet = None
    /\ \E meta \in Positions : ruleRet' = [rule |-> "task", ret |-> taskRule(items, meta)]
    /\ UNCHANGED <<items, declVars, tcVars, cliVars>>

NextTask ==
    \/ NameToken
    \/ InputSection
    \/ NonInputSection
    \/ OutputSection
    \/ CommandSection
    \/ MetaSection
    \/ TaskRule

SpecTask == InitTask /\ [][NextTask]_vars

-----------------------------------------------------------------------------
(* Specification of Task.typecheck.                                        *)

\* A task has been constructed, of a sequence of declarations cut into the
\* three sections and a command; typecheck has not been called yet.
InitTypecheck ==
    /\ \E ds \in SeqsUpTo(TcDecls, MaxDecls), c \in TcCommands :
         \E i \in 0..Len(ds) : \E j \in i..Len(ds) :
            task = TaskInit(TcPos, "t", SubSeq(ds, 1, i), SubSeq(ds, i + 1, j), c,
                            SubSeq(ds, j + 1, Len(ds)), PyDict(<<>>), PyDict(<<>>), PyDict(<<>>))
    /\ outer_env \in TcOuterEnvs
    /\ type_env = <<>>
    /\ pc = 0
    /\ tcLog = <<>>
    /\ tcResult = "idle"
    /\ declCall = None
    /\ declRet = None
    /\ items = <<>>
    /\ ruleRet = None
    /\ quant_warning = FALSE
    /\ cliCall = None
    /\ cliOut = None

NextTypecheck == TypecheckCall \/ TypecheckDecl \/ TypecheckCommand

SpecTypecheck == InitTypecheck /\ [][NextTypecheck]_vars

-----------------------------------------------------------------------------
(* Specification of the declaration rules of the transformer.              *)

\* The token between the type and the name of a quantified declaration: the
\* two quantifiers and one token the grammar should never let through.
QuantifierTokens == {Token("QUANT", q) : q \in {"?", "+", "*"}}

\* How many columns an initializer adds to the declaration it follows.
InitializerWidths == {4, 6}

\* The parse-tree node of a bound declaration starts where its declaration
\* starts and ends after the initializer expression.
BoundMetas(p) ==
    {Pos(p.line, p.column, p.end_line, p.end_column + w) : w \in InitializerWidths}

\* No rule has been applied yet.
InitDeclRules ==
    /\ items = <<>>
    /\ ruleRet = None
    /\ declCall = None
    /\ declRet = None
    /\ task = None
    /\ outer_env = <<>>
    /\ type_env = <<>>
    /\ pc = 0
    /\ tcLog = <<>>
    /\ tcResult = "idle"
    /\ quant_warning = FALSE
    /\ cliCall = None
    /\ cliOut = None

\* The decl rule is applied to a type and a name token.
DeclRule ==
    \E type \in Types, n \in Names, meta \in Positions :
        /\ items' = <<type, Token("CNAME", n)>>
        /\ ruleRet' = [rule |-> "decl", meta |-> meta,
                       ret |-> decl(<<type, Token("CNAME", n)>>, meta)]
        /\ UNCHANGED <<declVars, tcVars, cliVars>>

\* The quantified_decl rule is applied to a type, a quantifier token and a
\* name token.
QuantifiedDeclRule ==
    \E type \in Types, q \in QuantifierTokens, n \in Names, meta \in Positions :
        /\ items' = <<type, q, Token("CNAME", n)>>
        /\ ruleRet' = [rule |-> "quantified_decl", meta |-> meta,
                       ret |-> quantified_decl(<<type, q, Token("CNAME", n)>>, meta)]
        /\ UNCHANGED <<declVars, tcVars, cliVars>>

\* The bound_decl rule is applied to the Decl its first child was rewritten
\* to and to the initializer expression.
BoundDeclRule ==
    /\ ruleRet # None
    /\ ruleRet.rule \in {"decl", "quantified_decl"}
    /\ ruleRet.ret.ok
    /\ \E e \in ExprItems, meta \in BoundMetas(ruleRet.ret.val.pos) :
        /\ items' = <<ruleRet.ret.val, e>>
        /\ ruleRet' = [rule |-> "bound_decl", meta |-> meta,
                       ret |-> bound_decl(<<ruleRet.ret.val, e>>, meta).ret,
                       self |-> bound_decl(<<ruleRet.ret.val, e>>, meta).self]
        /\ UNCHANGED <<declVars, tcVars, cliVars>>

NextDeclRules == DeclRule \/ QuantifiedDeclRule \/ BoundDeclRule

SpecDeclRules == InitDeclRules /\ [][NextDeclRules]_vars

-----------------------------------------------------------------------------
(* Specification of Decl construction.                                     *)

\* Nothing has been constructed yet.
InitDecl ==
    /\ declCall = None
    /\ declRet = None
    /\ task = None
    /\ outer_env = <<>>
    /\ type_env = <<>>
    /\ pc = 0
    /\ tcLog = <<>>
    /\ tcResult = "idle"
    /\ items = <<>>
    /\ ruleRet = None
    /\ quant_warning = FALSE
    /\ cliCall = None
    /\ cliOut = None

NextDecl == NewDecl \/ DeclStr

SpecDecl == InitDecl /\ [][NextDecl]_vars

\* C1: a Decl constructed with nonempty=true fails with IncompatibleOperand
\* whenever its type is not an Array and succeeds whenever it is an Array, so
\* no Decl that exists has nonempty=true together with a non-Array type.
C1_NonemptyOnlyOnArray ==
    declCall # None =>
        /\ (declCall.nonempty /\ ~IsArray(declCall.type))
              => (~declRet.ok /\ declRet.err = "IncompatibleOperand")
        /\ (declCall.nonempty /\ IsArray(declCall.type)) => declRet.ok
        /\ declRet.ok => (declRet.val.nonempty => IsArray(declRet.val.type))

\* A construction with nonempty=true on a non-Array type has been rejected.
C1_Witness ==
    /\ declCall # None
    /\ declCall.nonempty
    /\ ~IsArray(declCall.type)
    /\ ~declRet.ok

-----------------------------------------------------------------------------
(* What the claims about Task.typecheck refer to, stated from the task and *)
(* the given environment alone.                                            *)

AllDecls == task.inputs \o task.postinputs \o task.outputs

NumPre == Len(task.inputs) + Len(task.postinputs)

\* The position of a checked declaration in inputs ++ postinputs ++ outputs.
DeclPos(entry) ==
    CASE entry.section = "inputs" -> entry.k
      [] entry.section = "postinputs" -> Len(task.inputs) + entry.k
      [] entry.section = "outputs" -> NumPre + entry.k

\* The outer environment plus the declarations at positions 1..n, the most
\* recent first.
EnvOfFirst(n) == [i \in 1..n |-> Binding(AllDecls[n + 1 - i].name, AllDecls[n + 1 - i].type)] \o outer_env

\* The number of declarations that precede a checked element.
Before(entry) == IF entry.kind = "command" THEN NumPre ELSE DeclPos(entry) - 1

DeclNames(lo, hi) == {AllDecls[i].name : i \in lo..hi}

OuterNames == {outer_env[i].name : i \in 1..Len(outer_env)}

\* The names a checked element refers to.
RefNames(entry) ==
    IF entry.kind = "command"
    THEN {PlaceholderParts(entry.node.parts)[i].expr.name :
             i \in 1..Len(PlaceholderParts(entry.node.parts))}
    ELSE IF entry.node.expr = None THEN {} ELSE {entry.node.expr.name}

\* The elements in the order inputs, postinputs, command, outputs.
InOrder ==
    [i \in 1..(Len(AllDecls) + 1) |->
        IF i <= Len(task.inputs) THEN [section |-> "inputs", k |-> i]
        ELSE IF i <= NumPre THEN [section |-> "postinputs", k |-> i - Len(task.inputs)]
        ELSE IF i = NumPre + 1 THEN [section |-> "command", k |-> 1]
        ELSE [section |-> "outputs", k |-> i - NumPre - 1]]

\* The outcome of checking element i of InOrder on its own, in the
\* environment of everything declared before it.
CheckAlone(i) ==
    IF i = NumPre + 1
    THEN Typecheck(task.command, EnvOfFirst(NumPre), TString)
    ELSE LET p == IF i <= NumPre THEN i ELSE i - 1
             d == AllDecls[p]
         IN IF d.expr = None THEN Return(None) ELSE Typecheck(d.expr, EnvOfFirst(p - 1), d.type)

Failing == {i \in 1..(Len(AllDecls) + 1) : ~CheckAlone(i).ok}

FirstFailing == IF Failing = {} THEN 0 ELSE CHOOSE i \in Failing : \A j \in Failing : i <= j

TcFailed == tcResult \notin {"idle", "running", "ok"}

\* What the name n stands for in an element preceded by the first m
\* declarations: the type of the latest declaration of n among them, else
\* the type the outer environment gives it, else nothing.
LatestType(n, m) ==
    LET ds == {i \in 1..m : AllDecls[i].name = n}
        os == {i \in 1..Len(outer_env) : outer_env[i].name = n}
    IN IF ds # {}
       THEN Return(AllDecls[CHOOSE i \in ds : \A j \in ds : j <= i].type)
       ELSE IF os # {}
       THEN Return(outer_env[CHOOSE i \in os : \A j \in os : i <= j].type)
       ELSE Raise("UnknownIdentifier")

\* C2: the expression of the declaration at position i of inputs ++
\* postinputs ++ outputs is checked in exactly the outer environment plus
\* the (name, type) of every declaration before i, with or without an
\* expression; a reference to a name declared only at a position >= i fails
\* with UnknownIdentifier.
C2_DeclareBeforeUse ==
    \A x \in 1..Len(tcLog) :
        LET e == tcLog[x] IN
        e.kind = "decl" =>
            /\ e.env = EnvOfFirst(DeclPos(e) - 1)
            /\ \A n \in RefNames(e) :
                  (n \notin OuterNames /\ n \notin DeclNames(1, DeclPos(e) - 1))
                      => (~e.ok /\ e.err = "UnknownIdentifier")

\* A forward reference was rejected: the name is declared later, with no
\* expression before it that could hide the case.
C2_Witness ==
    \E x \in 1..Len(tcLog) :
        LET e == tcLog[x] IN
        /\ e.kind = "decl"
        /\ e.err = "UnknownIdentifier"
        /\ \E n \in RefNames(e) : n \in DeclNames(DeclPos(e), Len(AllDecls))
        /\ \E y \in 1..(x - 1) : tcLog[y].kind = "decl" /\ tcLog[y].node.expr = None

\* C3: the command is checked in the outer environment plus all inputs and
\* postinputs and no outputs: a placeholder naming an input or postinput
\* resolves, one naming a declaration found only in outputs fails.
C3_CommandEnv ==
    \A x \in 1..Len(tcLog) :
        LET e == tcLog[x] IN
        e.kind = "command" =>
            /\ e.env = EnvOfFirst(NumPre)
            /\ (RefNames(e) \subseteq DeclNames(1, NumPre)) => e.ok
            /\ \A n \in RefNames(e) :
                  (n \in DeclNames(NumPre + 1, Len(AllDecls))
                     /\ n \notin DeclNames(1, NumPre) /\ n \notin OuterNames)
                      => (~e.ok /\ e.err = "UnknownIdentifier")

\* The command named a declaration that only the outputs hold, and failed.
C3_Witness ==
    \E x \in 1..Len(tcLog) :
        LET e == tcLog[x] IN
        /\ e.kind = "command"
        /\ ~e.ok
        /\ \E n \in RefNames(e) :
              n \in DeclNames(NumPre + 1, Len(AllDecls)) /\ n \notin DeclNames(1, NumPre)

\* C4: the outputs are folded after the command, continuing from the
\* environment of inputs and postinputs: output k may reference any input,
\* postinput and output before k, never an output at a position >= k.
C4_OutputsAfterCommand ==
    \A x \in 1..Len(tcLog) :
        LET e == tcLog[x] IN
        e.section = "outputs" =>
            /\ \E y \in 1..(x - 1) : tcLog[y].kind = "command"
            /\ e.env = EnvOfFirst(NumPre + e.k - 1)
            /\ \A n \in RefNames(e) :
                  /\ n \in DeclNames(1, NumPre + e.k - 1) => e.err # "UnknownIdentifier"
                  /\ (n \notin DeclNames(1, NumPre + e.k - 1) /\ n \notin OuterNames)
                        => (~e.ok /\ e.err = "UnknownIdentifier")

\* An output that references an earlier output was accepted.
C4_Witness ==
    \E x \in 1..Len(tcLog) :
        LET e == tcLog[x] IN
        /\ e.section = "outputs"
        /\ e.ok
        /\ \E n \in RefNames(e) :
              n \in DeclNames(NumPre + 1, NumPre + e.k - 1) /\ n \notin DeclNames(1, NumPre)
                 /\ n \notin OuterNames

\* C5: typecheck fails fast: it ends with the error of the first failing
\* element in the order inputs, postinputs, command, outputs, and nothing
\* after that element is inferred or checked.
C5_FailFast ==
    /\ \A x \in 1..Len(tcLog) :
          /\ tcLog[x].section = InOrder[x].section
          /\ tcLog[x].k = InOrder[x].k
    /\ FirstFailing # 0 => Len(tcLog) <= FirstFailing
    /\ TcFailed =>
          /\ FirstFailing # 0
          /\ Len(tcLog) = FirstFailing
          /\ tcResult = CheckAlone(FirstFailing).err
    /\ tcResult = "ok" => (FirstFailing = 0 /\ Len(tcLog) = Len(AllDecls) + 1)

\* typecheck ended on a failing element that has a later element, itself
\* failing, left unchecked.
C5_Witness ==
    /\ TcFailed
    /\ \E i \in Failing : i > Len(tcLog)

\* C6: duplicate names are not rejected, and each reference resolves to the
\* latest declaration of the name that precedes the element it is in (the
\* outer binding when there is none).
C6_LastBindWins ==
    /\ TcFailed => tcResult \in {"UnknownIdentifier", "StaticTypeMismatch"}
    /\ (tcResult = "ok" \/ TcFailed) => (tcResult = "ok" <=> FirstFailing = 0)
    /\ \A x \in 1..Len(tcLog) :
          LET e == tcLog[x] IN
          \A r \in 1..Len(e.inferred) :
              LET n == IF e.kind = "command"
                       THEN PlaceholderParts(e.node.parts)[r].expr.name
                       ELSE e.node.expr.name
              IN e.inferred[r] = LatestType(n, Before(e))

\* A name bound twice with different types (by two declarations, or by the
\* outer environment and a declaration) was accepted; a reference checked
\* between the two resolved to the earlier type and one checked after both
\* to the later type.
C6_Witness ==
    \E x, y, z \in 1..Len(tcLog) :
        LET e == tcLog[x]
            d == tcLog[y]
            f == tcLog[z] IN
        /\ tcResult = "ok"
        /\ x < y /\ y < z
        /\ d.kind = "decl"
        /\ d.node.name \in RefNames(e) /\ d.node.name \in RefNames(f)
        /\ e.inferred[1].ok /\ e.inferred[1].val # d.node.type
        /\ f.inferred[1].ok /\ f.inferred[1].val = d.node.type

-----------------------------------------------------------------------------
(* The task rule and the meta rules.                                       *)

SectionItems == {i \in 1..Len(items) : items[i].tag = "dict"}

NameItems == {i \in 1..Len(items) : items[i].tag = "Token"}

RepeatedKey == \E i, j \in SectionItems : i # j /\ items[i].key = items[j].key

TaskRuleApplied == ruleRet # None /\ ruleRet.rule = "task"

TaskProduced == TaskRuleApplied /\ ruleRet.ret.ok

\* The field of the Task a section key is stored in.
TaskField(t, key) ==
    CASE key = "inputs" -> t.inputs
      [] key = "decls" -> t.postinputs
      [] key = "command" -> t.command
      [] key = "outputs" -> t.outputs
      [] key = "parameter_meta" -> t.parameter_meta
      [] key = "runtime" -> t.runtime
      [] key = "meta" -> t.meta

\* C7: the task rule yields a Task only for sub-results with pairwise
\* distinct section keys and exactly one name token; with a repeated key,
\* two names or no name it fails, so every section handed to it is in the
\* Task it returns.
C7_NoSectionLost ==
    /\ (TaskRuleApplied /\ (RepeatedKey \/ Cardinality(NameItems) # 1)) => ~ruleRet.ret.ok
    /\ TaskProduced =>
          /\ \A i \in NameItems : ruleRet.ret.val.name = items[i].value
          /\ \A i \in SectionItems : TaskField(ruleRet.ret.val, items[i].key) = items[i].val

\* The task rule failed on two runtime sections of different content.
C7_Witness ==
    /\ TaskRuleApplied
    /\ ~ruleRet.ret.ok
    /\ ruleRet.ret.err = "AssertionError"
    /\ Cardinality(NameItems) = 1
    /\ \E i, j \in SectionItems :
          /\ items[i].key = "runtime" /\ items[j].key = "runtime"
          /\ items[i].val # items[j].val

\* C8: a task with two runtime sections fails with an error of the
\* ValidationError kind, which main reports, exiting with status 2.
C8_DuplicateRuntimeIsValidationError ==
    (/\ TaskRuleApplied
     /\ \E i, j \in SectionItems :
           i # j /\ items[i].key = "runtime" /\ items[j].key = "runtime")
        => /\ ~ruleRet.ret.ok
           /\ BaseClass(ruleRet.ret.err) = "ValidationError"
           /\ MainExit(ruleRet.ret.err) = 2

\* A plain value: a number, a boolean, a string, or a list or a mapping of
\* plain values.
RECURSIVE IsPlain(_)
IsPlain(v) ==
    /\ "py" \in DOMAIN v
    /\ CASE v.py \in {"int", "float", "bool", "str"} -> TRUE
         [] v.py = "list" -> \A i \in 1..Len(v.v) : IsPlain(v.v[i])
         [] v.py = "dict" -> \A k \in DOMAIN v.v : IsPlain(v.v[k])
         [] OTHER -> FALSE

\* C9: the parameter_meta, runtime and meta mappings of every Task the
\* transformer produces hold plain values only, at every depth.
C9_MetaIsPlain ==
    TaskProduced =>
        /\ IsPlain(ruleRet.ret.val.parameter_meta)
        /\ IsPlain(ruleRet.ret.val.runtime)
        /\ IsPlain(ruleRet.ret.val.meta)

\* A Task was produced whose runtime mapping holds a list that holds a
\* mapping with a literal in it.
C9_Witness ==
    /\ TaskProduced
    /\ LET rt == ruleRet.ret.val.runtime.v IN
       \E k \in DOMAIN rt :
          /\ rt[k].py = "list"
          /\ \E i \in 1..Len(rt[k].v) :
                rt[k].v[i].py = "dict" /\ DOMAIN rt[k].v[i].v # {}

-----------------------------------------------------------------------------
(* The string and command rules.                                           *)

\* The String a rule returned.
StringOf(r) == IF r.rule = "string" THEN r.ret.val ELSE r.ret.val.val

\* C10: the parts of the String have the length and order of the items; a
\* fragment token is stored as its text without the two-character marker it
\* ends with, any other token unchanged, an expression as a Placeholder; no
\* part contains the marker.
C10_CleanParts ==
    ruleRet # None =>
        LET parts == StringOf(ruleRet).parts IN
        /\ ruleRet.ret.ok
        /\ Len(parts) = Len(items)
        /\ \A i \in 1..Len(items) :
              IF items[i].tag = "Token"
              THEN /\ parts[i].tag = "text"
                   /\ IF items[i].type \in FragmentTypes
                      THEN parts[i].text \o Marker = items[i].value
                      ELSE parts[i].text = items[i].value
                   /\ ~HasMarker(parts[i].text)
              ELSE /\ parts[i].tag = "Placeholder"
                   /\ IF ruleRet.rule = "string"
                      THEN parts[i].expr = items[i]
                      ELSE parts[i] = items[i]

\* The string rule was given a fragment with text in front of its marker,
\* followed by an expression.
C10_Witness ==
    /\ ruleRet # None
    /\ ruleRet.rule = "string"
    /\ Len(items) = 2
    /\ items[1].tag = "Token" /\ items[1].type \in FragmentTypes /\ Len(items[1].value) > 2
    /\ items[2].tag = "Ident"
    /\ StringOf(ruleRet).parts[1].text # <<>>

-----------------------------------------------------------------------------
(* What the claims about the declaration rules refer to.                   *)

\* A declaration rule has been applied.
DeclRuleApplied(rule) == ruleRet # None /\ ruleRet.rule = rule

\* The quantifier token the quantified_decl rule was given.
QuantifierGiven == items[2].value

\* C11: every Decl the declaration rules produce carries at most one
\* quantifier: the decl rule yields optional = false and nonempty = false; the
\* quantified_decl rule yields optional only for `?` (and always succeeds
\* then), nonempty only for `+` (succeeding whenever the type is an Array);
\* any other quantifier token fails the rule's assertion and yields no Decl.
C11_AtMostOneQuantifier ==
    /\ DeclRuleApplied("decl") =>
          /\ ruleRet.ret.ok
          /\ ~ruleRet.ret.val.optional /\ ~ruleRet.ret.val.nonempty
    /\ DeclRuleApplied("quantified_decl") =>
          /\ QuantifierGiven = "?" =>
                /\ ruleRet.ret.ok
                /\ ruleRet.ret.val.optional /\ ~ruleRet.ret.val.nonempty
          /\ QuantifierGiven = "+" =>
                /\ ruleRet.ret.ok <=> IsArray(items[1])
                /\ ruleRet.ret.ok =>
                      ~ruleRet.ret.val.optional /\ ruleRet.ret.val.nonempty
          /\ QuantifierGiven \notin {"?", "+"} =>
                ~ruleRet.ret.ok /\ ruleRet.ret.err = "AssertionError"
    /\ (ruleRet # None /\ ruleRet.ret.ok) =>
          ~(ruleRet.ret.val.optional /\ ruleRet.ret.val.nonempty)

\* The quantified_decl rule has been given a token that is neither `?` nor
\* `+` and has failed.
C11_Witness ==
    /\ DeclRuleApplied("quantified_decl")
    /\ QuantifierGiven = "*"
    /\ ~ruleRet.ret.ok

\* C12: bind never fails on a Decl the constructor accepted; the Decl it
\* returns has the receiver's pos, type, name, optional and nonempty and the
\* given expression, and the receiver, its own expr included, is after the
\* call what it was before.
C12_BindFrame ==
    DeclRuleApplied("bound_decl") =>
        /\ ruleRet.ret.ok
        /\ ruleRet.ret.val = [items[1] EXCEPT !.expr = items[2]]
        /\ ruleRet.self = items[1]

\* An unbound Decl with the nonempty quantifier has been bound to an
\* expression.
C12_Witness ==
    /\ DeclRuleApplied("bound_decl")
    /\ items[1].expr = None
    /\ items[1].nonempty
    /\ ruleRet.ret.ok
    /\ ruleRet.ret.val.expr = items[2]

\* C13: every Decl a declaration rule outputs carries the position of the
\* parse-tree node the rule was applied to.
C13_PosOfRewrittenNode ==
    (ruleRet # None /\ ruleRet.ret.ok) => ruleRet.ret.val.pos = sp(ruleRet.meta)

-----------------------------------------------------------------------------
(* CLI.py: print_error and the handler of main.                            *)

\* Length of the source texts drawn as inputs.
MaxSourceLen == 4

\* Number of errors in a MultipleValidationErrors drawn as input.
MaxErrors == 2

\* Characters of a source text: a letter, a blank, a tab and a line break.
SourceChars == {"x", " ", "\t", "\n"}

SourceTexts == SeqsUpTo(SourceChars, MaxSourceLen)

\* s.split("\n"): the pieces between the line breaks, at least one.
RECURSIVE Split(_)
Split(s) ==
    IF \A i \in 1..Len(s) : s[i] # "\n" THEN <<s>>
    ELSE LET k == CHOOSE i \in 1..Len(s) :
                      s[i] = "\n" /\ \A j \in 1..(i - 1) : s[j] # "\n"
         IN <<SubSeq(s, 1, k - 1)>> \o Split(SubSeq(s, k + 1, Len(s)))

\* line.replace("\t", " ")
ReplaceTabs(line) == [i \in 1..Len(line) |-> IF line[i] = "\t" THEN " " ELSE line[i]]

\* c * n, the empty string when n is not positive.
Rep(c, n) == [i \in 1..n |-> c]

\* A plausible slip: the underline taken from the position as it is, blanks
\* at the end of the span not trimmed.
TrimEnd_None(error_line, column, end_column) == end_column

\* The while loop of print_error: end_column moves left over blanks, never
\* closer to column than one character.
RECURSIVE TrimEnd(_, _, _)
TrimEnd(error_line, column, end_column) ==
    IF end_column > column + 1 /\ error_line[end_column - 1] = " "
    THEN TrimEnd(error_line, column, end_column - 1)
    ELSE end_column

\* The source excerpt of print_error: the reported line, tabs replaced, and
\* the underline below it, both indented by four blanks.
Excerpt(exn) ==
    LET error_line == ReplaceTabs(Split(exn.source_text)[exn.pos.line])
        end_column == IF exn.pos.end_line > exn.pos.line
                      THEN TrimEnd(error_line, exn.pos.column, Len(error_line) + 1)
                      ELSE TrimEnd(error_line, exn.pos.column, exn.pos.end_column)
    IN << [what |-> "line", text |-> Rep(" ", 4) \o error_line],
          [what |-> "underline",
           text |-> Rep(" ", 4) \o Rep(" ", exn.pos.column - 1)
                        \o Rep("^", end_column - exn.pos.column)] >>

\* isinstance(exn, Error.ValidationError)
IsValidationError(exn) == BaseClass(exn.kind) = "ValidationError"

\* The condition under which print_error sets quant_warning: reached only
\* inside the branch that prints the source excerpt.
SetsQuantWarning(exn) ==
    /\ IsValidationError(exn)
    /\ exn.source_text # <<>>
    /\ exn.kind = "StaticTypeMismatch"
    /\ Coerces(exn.actual, exn.expected, FALSE)

\* The first line print_error prints for an error: its position, when it has
\* one, and its message.
MessageLine(exn) ==
    IF exn = None THEN [what |-> "message", pos |-> None, text |-> "None"]
    ELSE [what |-> "message", pos |-> exn.pos, text |-> exn.kind]

\* print_error(exn) with quant_warning = qw on entry: the lines printed to
\* standard error and quant_warning on return.
RECURSIVE print_error(_, _)
RECURSIVE PrintEach(_, _)
print_error(exn, qw) ==
    IF exn = None THEN [out |-> <<MessageLine(exn)>>, quant_warning |-> qw]
    ELSE IF exn.kind = "MultipleValidationErrors" THEN PrintEach(exn.exceptions, qw)
    ELSE LET cause == IF exn.kind = "ImportError"
                      THEN print_error(exn.cause, qw)
                      ELSE [out |-> <<>>, quant_warning |-> qw]
             excerpt == IF IsValidationError(exn) /\ exn.source_text # <<>>
                        THEN Excerpt(exn) ELSE <<>>
         IN [out |-> <<MessageLine(exn)>> \o cause.out \o excerpt,
             quant_warning |-> cause.quant_warning \/ SetsQuantWarning(exn)]

\* for exn1 in exn.exceptions: print_error(exn1)
PrintEach(exns, qw) ==
    IF exns = <<>> THEN [out |-> <<>>, quant_warning |-> qw]
    ELSE LET first == print_error(Head(exns), qw)
             rest == PrintEach(Tail(exns), first.quant_warning)
         IN [out |-> first.out \o rest.out, quant_warning |-> rest.quant_warning]

\* The hint main prints after the errors.
HintLine == [what |-> "hint", text |-> "--no-quant-check"]

\* The except clause of main for a caught error, entered with quant_warning =
\* qw: what is printed, the flag afterwards, and how main ends.
MainHandler(check_quant, debug, exn, qw) ==
    LET printed == print_error(exn, qw)
    IN [quant_warning |-> printed.quant_warning,
        stderr |-> printed.out
                     \o (IF check_quant /\ printed.quant_warning THEN <<HintLine>> ELSE <<>>),
        raised |-> IF debug THEN exn.kind ELSE "SystemExit",
        status |-> IF debug THEN 1 ELSE 2]

\* How the command main dispatches to can end otherwise: it returns, it
\* raises an exception main does not catch, or it calls die.
CommandOutcomes ==
    {[kind |-> "returned"], [kind |-> "RuntimeError"], [kind |-> "SystemExit", code |-> 2]}

\* A plausible slip: main hands back what the command returned.
main_Returning(check_quant, debug, outcome, qw) ==
    IF outcome.kind = "returned"
    THEN [quant_warning |-> qw, stderr |-> <<>>, raised |-> "", status |-> 0]
    ELSE IF BaseClass(outcome.kind) \in CaughtByMain
    THEN MainHandler(check_quant, debug, outcome, qw)
    ELSE [quant_warning |-> qw, stderr |-> <<>>, raised |-> outcome.kind,
          status |-> IF outcome.kind = "SystemExit" THEN outcome.code ELSE 1]

\* main from the dispatch on: sys.exit(0) after a command that returns, the
\* except clause for the errors it catches, and any other exception passed
\* on to the caller (the interpreter ends with status 1, or with the code of
\* a SystemExit).
main(check_quant, debug, outcome, qw) ==
    IF outcome.kind = "returned"
    THEN [quant_warning |-> qw, stderr |-> <<>>, raised |-> "SystemExit", status |-> 0]
    ELSE IF BaseClass(outcome.kind) \in CaughtByMain
    THEN MainHandler(check_quant, debug, outcome, qw)
    ELSE [quant_warning |-> qw, stderr |-> <<>>, raised |-> outcome.kind,
          status |-> IF outcome.kind = "SystemExit" THEN outcome.code ELSE 1]

\* The errors drawn as inputs: where they are reported, their source text
\* (absent or two characters), and the types of a mismatch.
ErrPos == Pos(1, 1, 1, 3)

ErrSources == {<<>>, <<"x", "x">>}

ErrTypes == {TInt, TString, TArray(TInt)}

\* The mismatches a load with the given check_quant can raise: the actual
\* type does not coerce to the expected one under that setting.
StaticTypeMismatches(check_quant) ==
    {[kind |-> "StaticTypeMismatch", pos |-> ErrPos, source_text |-> t,
      actual |-> x[1], expected |-> x[2]] :
        t \in ErrSources,
        x \in {y \in ErrTypes \X ErrTypes : ~Coerces(y[1], y[2], check_quant)}}

ValidationErrors(check_quant) ==
    StaticTypeMismatches(check_quant)
        \cup {[kind |-> "UnknownIdentifier", pos |-> ErrPos, source_text |-> t] :
                 t \in ErrSources}

SyntaxErrors == {[kind |-> "SyntaxError", pos |-> ErrPos]}

\* Everything the except clause of main catches.
StaticErrors(check_quant) ==
    ValidationErrors(check_quant) \cup SyntaxErrors
        \cup {[kind |-> "ImportError", pos |-> ErrPos, cause |-> c] :
                 c \in {None} \cup ValidationErrors(check_quant) \cup SyntaxErrors}
        \cup {[kind |-> "MultipleValidationErrors", exceptions |-> es] :
                 es \in SeqsUpTo(ValidationErrors(check_quant), MaxErrors) \ {<<>>}}

\* The positions a parser can report in a source text: inside the text, the
\* end after the start.
SourcePositions(text) ==
    LET lines == Split(text)
    IN {p \in {Pos(l, c, el, ec) : l \in 1..Len(lines), c \in 1..MaxSourceLen,
                                   el \in 1..Len(lines), ec \in 1..(MaxSourceLen + 1)} :
          /\ p.column <= Len(lines[p.line])
          /\ p.end_line >= p.line
          /\ p.end_column <= Len(lines[p.end_line]) + 1
          /\ p.end_line = p.line => p.end_column > p.column}

-----------------------------------------------------------------------------
(* CLI.py: runner_input.                                                   *)

\* die(msg): the message goes to standard error and the process exits with
\* status 2.
Die(msg) == [ok |-> FALSE, err |-> "SystemExit", val |-> None, msg |-> msg, status |-> 2]

\* WDL.Value: a value knows its type.
Value(type, v) == [tag |-> "Value", type |-> type, value |-> v]

\* Value.Array(item_type, items)
ValueArray(item_type, vs) == Value(TArray(item_type), vs)

\* Env.Bindings: the bindings, the most recent first; a name is held as its
\* characters.
EnvBind(name, value, env) == <<[name |-> name, value |-> value]>> \o env

EnvHas(env, name) == \E i \in 1..Len(env) : env[i].name = name

\* env[name], for a name that is bound.
EnvGet(env, name) ==
    env[CHOOSE i \in 1..Len(env) :
            env[i].name = name /\ \A j \in 1..(i - 1) : env[j].name # name].value

\* A plausible slip: the new elements put in front of the bound ones.
EnvExtend_InFront(env, name, vs) ==
    LET k == CHOOSE i \in 1..Len(env) :
                 env[i].name = name /\ \A j \in 1..(i - 1) : env[j].name # name
    IN [env EXCEPT ![k].value.value = vs \o @]

\* existing.value.extend(v.value): the bound array grows in place.
EnvExtend(env, name, vs) ==
    LET k == CHOOSE i \in 1..Len(env) :
                 env[i].name = name /\ \A j \in 1..(i - 1) : env[j].name # name
    IN [env EXCEPT ![k].value.value = @ \o vs]

\* target.available_inputs: the input declarations of the target by name.
HasInput(target, name) ==
    \E i \in 1..Len(target.inputs) : <<target.inputs[i].name>> = name

InputDecl(target, name) ==
    target.inputs[CHOOSE i \in 1..Len(target.inputs) : <<target.inputs[i].name>> = name]

\* target.required_inputs: the inputs without a default that are not
\* optional.
RequiredInputs(target) ==
    {<<target.inputs[i].name>> : i \in {j \in 1..Len(target.inputs) :
        target.inputs[j].expr = None /\ ~target.inputs[j].type.optional}}

\* c.isalpha() and c.isdigit() on the characters of the model.
IsAlpha(c) == c \in {"a", "b", "c", "x", "z", "t", "r", "u", "e", "f", "l", "s"}

DigitValue(c) == IF c = "1" THEN 1 ELSE 2

IsDigit(c) == c \in {"1", "2"}

\* int(s) for a string of digits; anything else is a ValueError.
RECURSIVE DecimalValue(_)
DecimalValue(s) ==
    IF s = <<>> THEN 0
    ELSE 10 * DecimalValue(SubSeq(s, 1, Len(s) - 1)) + DigitValue(s[Len(s)])

IntOf(s) ==
    IF s # <<>> /\ \A i \in 1..Len(s) : IsDigit(s[i])
    THEN Return(DecimalValue(s))
    ELSE Raise("ValueError")

\* one_input.split("=", 1): one piece without "=", else the text before the
\* first "=" and everything after it.
SplitOnce(s) ==
    IF \A i \in 1..Len(s) : s[i] # "="
    THEN <<s>>
    ELSE LET k == CHOOSE i \in 1..Len(s) :
                      s[i] = "=" /\ \A j \in 1..(i - 1) : s[j] # "="
         IN <<SubSeq(s, 1, k - 1), SubSeq(s, k + 1, Len(s))>>

\* runner_input_value(s_value, ty), for the types of the model.
runner_input_scalar(s_value, ty) ==
    CASE ty.base = "String" -> Return(Value(ty, s_value))
      [] ty.base = "Boolean" ->
            IF s_value = <<"t", "r", "u", "e">> THEN Return(Value(ty, TRUE))
            ELSE IF s_value = <<"f", "a", "l", "s", "e">> THEN Return(Value(ty, FALSE))
            ELSE Die("Boolean input should be true or false")
      [] ty.base = "Int" ->
            IF IntOf(s_value).ok THEN Return(Value(ty, IntOf(s_value).val))
            ELSE Raise("ValueError")
      [] ty.base = "Float" ->
            IF IntOf(s_value).ok THEN Return(Value(ty, PyFloat(IntOf(s_value).val)))
            ELSE Raise("ValueError")

runner_input_value(s_value, ty) ==
    IF ~IsArray(ty) THEN runner_input_scalar(s_value, ty)
    ELSE IF ItemType(ty).depth = 0 /\ ItemType(ty).base \in {"String", "Int", "Float"}
    THEN LET item == runner_input_scalar(s_value, ItemType(ty))
         IN IF item.ok THEN Return(ValueArray(ItemType(ty), <<item.val>>)) ELSE item
    ELSE Die("No command-line support yet for inputs of this type")

\* A plausible slip: the workflow looked at before the task name.
ResolveTarget_WorkflowFirst(doc, task_name) ==
    IF doc.workflow # None THEN Return(doc.workflow)
    ELSE IF task_name # ""
    THEN IF \E i \in 1..Len(doc.tasks) : doc.tasks[i].name = task_name
         THEN Return(doc.tasks[CHOOSE i \in 1..Len(doc.tasks) :
                        /\ doc.tasks[i].name = task_name
                        /\ \A j \in 1..(i - 1) : doc.tasks[j].name # task_name])
         ELSE Die("no such task in document")
    ELSE IF Len(doc.tasks) = 1 THEN Return(doc.tasks[1])
    ELSE IF Len(doc.tasks) > 1
    THEN Die("specify --task for WDL document with multiple tasks and no workflow")
    ELSE Die("Empty WDL document")

\* The first part of runner_input: the target the inputs are for. `if task:`
\* is false for None and for the empty string, both held as "".
ResolveTarget(doc, task_name) ==
    IF task_name # ""
    THEN IF \E i \in 1..Len(doc.tasks) : doc.tasks[i].name = task_name
         THEN Return(doc.tasks[CHOOSE i \in 1..Len(doc.tasks) :
                        /\ doc.tasks[i].name = task_name
                        /\ \A j \in 1..(i - 1) : doc.tasks[j].name # task_name])
         ELSE Die("no such task in document")
    ELSE IF doc.workflow # None THEN Return(doc.workflow)
    ELSE IF Len(doc.tasks) = 1 THEN Return(doc.tasks[1])
    ELSE IF Len(doc.tasks) > 1
    THEN Die("specify --task for WDL document with multiple tasks and no workflow")
    ELSE Die("Empty WDL document")

\* runner_input_json_file: no file gives no bindings; the bindings of a file
\* must name inputs of the target.
runner_input_json_file(target, input_file) ==
    IF input_file = None THEN Return(<<>>)
    ELSE IF \A i \in 1..Len(input_file.bindings) :
                HasInput(target, input_file.bindings[i].name)
    THEN Return(input_file.bindings)
    ELSE Raise("InputError")

\* not isinstance(decl.type, Type.Array) or decl.type.nonempty
CannotBeEmpty(d) == ~IsArray(d.type) \/ d.type.nonempty

\* The loop over --empty: each name is bound to the empty array of its
\* declaration's item type.
RECURSIVE SetEmpty(_, _, _)
SetEmpty(target, empty, input_env) ==
    IF empty = <<>> THEN Return(input_env)
    ELSE IF ~HasInput(target, Head(empty)) THEN Die("No such input")
    ELSE IF CannotBeEmpty(InputDecl(target, Head(empty)))
    THEN Die("Cannot set input to empty array")
    ELSE SetEmpty(target, Tail(empty),
                  EnvBind(Head(empty),
                          ValueArray(ItemType(InputDecl(target, Head(empty)).type), <<>>),
                          input_env))

\* A plausible slip: a later value for a bound non-array input overrides the
\* earlier one.
AddInput_Override(target, one_input, input_env) ==
    IF one_input = <<>> \/ ~IsAlpha(one_input[1]) THEN Die("input help")
    ELSE IF Len(SplitOnce(one_input)) # 2 \/ SplitOnce(one_input)[1] = <<>>
    THEN Die("Invalid input name=value pair")
    ELSE IF ~HasInput(target, SplitOnce(one_input)[1]) THEN Die("No such input")
    ELSE LET name == SplitOnce(one_input)[1]
             v == runner_input_value(SplitOnce(one_input)[2], InputDecl(target, name).type)
         IN IF ~v.ok THEN v
            ELSE IF ~EnvHas(input_env, name) THEN Return(EnvBind(name, v.val, input_env))
            ELSE IF ~IsArray(v.val.type) THEN Return(EnvBind(name, v.val, input_env))
            ELSE IF IsArray(EnvGet(input_env, name).type)
                    /\ Coerces(v.val.type, EnvGet(input_env, name).type, TRUE)
            THEN Return(EnvExtend(input_env, name, v.val.value))
            ELSE Raise("AssertionError")

\* The body of the loop over the command-line inputs, for one name=value.
AddInput(target, one_input, input_env) ==
    IF one_input = <<>> \/ ~IsAlpha(one_input[1]) THEN Die("input help")
    ELSE IF Len(SplitOnce(one_input)) # 2 \/ SplitOnce(one_input)[1] = <<>>
    THEN Die("Invalid input name=value pair")
    ELSE IF ~HasInput(target, SplitOnce(one_input)[1]) THEN Die("No such input")
    ELSE LET name == SplitOnce(one_input)[1]
             v == runner_input_value(SplitOnce(one_input)[2], InputDecl(target, name).type)
         IN IF ~v.ok THEN v
            ELSE IF ~EnvHas(input_env, name) THEN Return(EnvBind(name, v.val, input_env))
            ELSE IF ~IsArray(v.val.type) THEN Die("non-array input duplicated")
            ELSE IF IsArray(EnvGet(input_env, name).type)
                    /\ Coerces(v.val.type, EnvGet(input_env, name).type, TRUE)
            THEN Return(EnvExtend(input_env, name, v.val.value))
            ELSE Raise("AssertionError")

RECURSIVE AddInputs(_, _, _)
AddInputs(target, inputs, input_env) ==
    IF inputs = <<>> THEN Return(input_env)
    ELSE LET first == AddInput(target, Head(inputs), input_env)
         IN IF first.ok THEN AddInputs(target, Tail(inputs), first.val) ELSE first

\* die("missing required inputs for ...: ..."): the message names the
\* missing inputs.
DieMissing(names) ==
    [ok |-> FALSE, err |-> "SystemExit", val |-> None,
     msg |-> "missing required inputs", status |-> 2, missing |-> names]

\* A plausible slip: the missing inputs worked out and never reported.
CheckRequired_Unreported(target, check_required, input_env) ==
    Return([target |-> target, input_env |-> input_env])

\* The check for missing inputs at the end of runner_input.
CheckRequired(target, check_required, input_env) ==
    LET missing_inputs == {n \in RequiredInputs(target) : ~EnvHas(input_env, n)}
    IN IF check_required /\ missing_inputs # {}
       THEN DieMissing(missing_inputs)
       ELSE Return([target |-> target, input_env |-> input_env])

\* runner_input(doc, inputs, input_file, empty, task, check_required): the
\* target and the input environment, or how the call ends otherwise.
runner_input(doc, inputs, input_file, empty, task_name, check_required) ==
    LET target == ResolveTarget(doc, task_name)
    IN IF ~target.ok THEN target
       ELSE LET from_file == runner_input_json_file(target.val, input_file)
            IN IF ~from_file.ok THEN from_file
               ELSE LET emptied == SetEmpty(target.val, empty, from_file.val)
                    IN IF ~emptied.ok THEN emptied
                       ELSE LET given == AddInputs(target.val, inputs, emptied.val)
                            IN IF ~given.ok THEN given
                               ELSE CheckRequired(target.val, check_required, given.val)

\* Bounds of the lists given to runner_input.
MaxEmpty == 1

MaxInputs == 1

\* The input declarations of the targets drawn as inputs, as the declaration
\* rules of the transformer produce them: `a` an Int or an Array[Int] with
\* any quantifier, `b` an Array[Int].
InputDeclsA ==
    {decl(<<t, Token("CNAME", "a")>>, ErrPos).val : t \in {TInt, TArray(TInt)}}
        \cup {quantified_decl(<<x[1], x[2], Token("CNAME", "a")>>, ErrPos).val :
                 x \in {y \in {TInt, TArray(TInt)} \X QuantifierTokens :
                           quantified_decl(<<y[1], y[2], Token("CNAME", "a")>>, ErrPos).ok}}

InputDeclB == decl(<<TArray(TInt), Token("CNAME", "b")>>, ErrPos).val

TaskTarget(name, decls) == [tag |-> "Task", name |-> name, inputs |-> decls]

WorkflowTarget(name, decls) == [tag |-> "Workflow", name |-> name, inputs |-> decls]

RunTargets ==
    {TaskTarget("t", <<a>>) : a \in InputDeclsA}
        \cup {TaskTarget("t", <<a, InputDeclB>>) : a \in InputDeclsA}

\* What the user can name on the command line: an input or something else.
EmptyNames == {<<"a">>, <<"b">>, <<"z">>}

CmdLineItems ==
    {<<>>, <<"1">>, <<"a">>, <<"=", "1">>, <<"a", "=", "1">>, <<"a", "=", "x">>,
     <<"b", "=", "2">>, <<"z", "=", "1">>}

\* Bound of the command line when it repeats the keys of array inputs.
MaxRepeats == 2

\* A target with two array inputs and one that is not an array, and what
\* can be given for them on a command line that repeats keys.
RepeatTarget ==
    TaskTarget("t", <<decl(<<TArray(TInt), Token("CNAME", "a")>>, ErrPos).val, InputDeclB,
                      decl(<<TInt, Token("CNAME", "c")>>, ErrPos).val>>)

RepeatItems ==
    {<<"a", "=", "1">>, <<"a", "=", "2">>, <<"b", "=", "1">>, <<"b", "=", "2">>,
     <<"c", "=", "1">>, <<"c", "=", "2">>}

\* The bindings read from an input JSON file, when one is given.
InputFiles ==
    {None, [tag |-> "json",
            bindings |-> <<[name |-> <<"b">>, value |-> ValueArray(TInt, <<Value(TInt, 7)>>)]>>]}

\* The same, and a file that binds the input that is not an array.
RepeatFiles ==
    InputFiles \cup {[tag |-> "json",
                      bindings |-> <<[name |-> <<"c">>, value |-> Value(TInt, 5)]>>]}

\* The documents drawn for the resolution of the target.
Documents ==
    {[workflow |-> w, tasks |-> ts] :
        w \in {None, WorkflowTarget("w", <<>>)},
        ts \in SeqsUpTo({TaskTarget("t", <<>>), TaskTarget("u", <<>>)}, 2)}

-----------------------------------------------------------------------------
(* CLI.py: outline.                                                        *)

\* Bound of the lint entries of a node.
MaxLint == 2

\* The nodes outline walks are records with a kind; every node carries a
\* name (for a Scatter its variable; for a Document and a Conditional a label
\* that is never printed), has_lint for hasattr(obj, "lint"), and lint, a
\* list of (pos, klass, msg).

\* Tuples compare as in Python: by the first item that differs.
RECURSIVE LexLess(_, _)
LexLess(a, b) ==
    IF a = <<>> \/ b = <<>> THEN a = <<>> /\ b # <<>>
    ELSE IF Head(a) # Head(b) THEN Head(a) < Head(b)
    ELSE LexLess(Tail(a), Tail(b))

\* sorted(seq, key=...), keys[i] the key of seq[i]: a stable sort.
Sorted(seq, keys) ==
    LET rank(i) == 1 + Cardinality({j \in 1..Len(seq) :
                        LexLess(keys[j], keys[i]) \/ (keys[j] = keys[i] /\ j < i)})
    IN [p \in 1..Len(seq) |-> seq[CHOOSE i \in 1..Len(seq) : rank(i) = p]]

\* The order of the names of the model as strings.
NameRank(name) ==
    CHOOSE r \in 1..4 : <<"n", "t", "u", "v">>[r] = name

PosKey(pos) == <<pos.line, pos.column, pos.end_line, pos.end_column>>

\* sorted(obj.lint, key=lambda t: t[0]), each printed as a line.
LintLines(obj, level) ==
    LET sorted == Sorted(obj.lint, [i \in 1..Len(obj.lint) |-> PosKey(obj.lint[i].pos)])
    IN [i \in 1..Len(sorted) |->
           [what |-> "lint", indent |-> 4 * level + 4, line |-> sorted[i].pos.line,
            column |-> sorted[i].pos.column, klass |-> sorted[i].klass, msg |-> sorted[i].msg]]

\* A plausible slip: the lint shown before every descent, not only the first.
descend_lint_EveryDescent(obj, level, first_descent) ==
    IF obj.has_lint THEN LintLines(obj, level) ELSE <<>>

\* The first half of descend: show lint for the node just prior to the first
\* descent beneath it.
descend_lint(obj, level, first_descent) ==
    IF first_descent = <<>> /\ obj.has_lint THEN LintLines(obj, level) ELSE <<>>

\* The line a node's own branch prints before it descends, if any.
Heading(obj, level, show_called) ==
    CASE obj.kind \in {"Workflow", "Task"} ->
            <<[what |-> IF obj.kind = "Workflow" THEN "workflow" ELSE "task",
               indent |-> 4 * level, name |-> obj.name,
               not_called |-> show_called /\ ~obj.called]>>
      [] obj.kind = "Call" ->
            <<[what |-> "call", indent |-> 4 * level, name |-> obj.name,
               callee_id |-> obj.callee_id,
               as |-> obj.name # obj.callee_id[Len(obj.callee_id)]]>>
      [] obj.kind = "Scatter" ->
            <<[what |-> "scatter", indent |-> 4 * level, name |-> obj.name]>>
      [] obj.kind = "Conditional" -> <<[what |-> "if", indent |-> 4 * level]>>
      [] OTHER -> <<>>

\* The descents of a node in order: what is printed just before each (the
\* line of an import) and the node descended into.
Descents(obj, level) ==
    CASE obj.kind = "Document" ->
            (IF obj.workflow # None THEN <<[before |-> <<>>, dobj |-> obj.workflow]>> ELSE <<>>)
            \o LET tasks == Sorted(obj.tasks,
                                   [i \in 1..Len(obj.tasks) |->
                                       <<IF obj.tasks[i].called THEN 0 ELSE 1,
                                         NameRank(obj.tasks[i].name)>>])
               IN [i \in 1..Len(tasks) |-> [before |-> <<>>, dobj |-> tasks[i]]]
            \o LET imports == Sorted(obj.imports,
                                     [i \in 1..Len(obj.imports) |->
                                         <<NameRank(obj.imports[i].namespace)>>])
               IN [i \in 1..Len(imports) |->
                      [before |-> <<[what |-> "import", indent |-> 4 + 4 * level,
                                     name |-> imports[i].namespace]>>,
                       dobj |-> imports[i].doc]]
      [] obj.kind = "Workflow" ->
            [i \in 1..Len(obj.inputs \o obj.body \o obj.outputs) |->
                [before |-> <<>>, dobj |-> (obj.inputs \o obj.body \o obj.outputs)[i]]]
      [] obj.kind = "Task" ->
            [i \in 1..Len(obj.inputs \o obj.postinputs \o obj.outputs) |->
                [before |-> <<>>, dobj |-> (obj.inputs \o obj.postinputs \o obj.outputs)[i]]]
      [] obj.kind \in {"Scatter", "Conditional"} ->
            [i \in 1..Len(obj.body) |-> [before |-> <<>>, dobj |-> obj.body[i]]]
      [] OTHER -> <<>>

\* outline(obj, level, file, show_called): the lines printed. Each descent
\* prints what stands before it, then the lint if it is the first, then the
\* outline of the node below; the closing descend() has no node below.
RECURSIVE outline(_, _, _)
RECURSIVE OutlineDescents(_, _, _, _, _)
OutlineDescents(obj, level, show_called, descents, first_descent) ==
    IF descents = <<>> THEN descend_lint(obj, level, first_descent)
    ELSE Head(descents).before
         \o descend_lint(obj, level, first_descent)
         \o outline(Head(descents).dobj,
                    level + (IF Head(descents).dobj.kind # "Decl" THEN 1 ELSE 0),
                    show_called)
         \o OutlineDescents(obj, level, show_called, Tail(descents),
                            Append(first_descent, FALSE))

outline(obj, level, show_called) ==
    Heading(obj, level, show_called)
        \o OutlineDescents(obj, level, show_called, Descents(obj, level), <<>>)

\* The documents drawn as inputs. The nodes named in linted have the lint
\* attribute, its entries those of the template with the node's name as
\* their message.
LintTemplates ==
    SeqsUpTo({[pos |-> Pos(2, 1, 2, 3), klass |-> "A"],
              [pos |-> Pos(1, 1, 1, 3), klass |-> "B"]}, MaxLint)

Node(fields, linted, template) ==
    fields @@ [has_lint |-> fields.name \in linted,
               lint |-> IF fields.name \in linted
                        THEN [i \in 1..Len(template) |->
                                 [pos |-> template[i].pos, klass |-> template[i].klass,
                                  msg |-> fields.name]]
                        ELSE <<>>]

OutlineDecl(name, linted, template) == Node([kind |-> "Decl", name |-> name], linted, template)

OutlineWorkflows(linted, template) ==
    {None,
     Node([kind |-> "Workflow", name |-> "w", called |-> FALSE,
           inputs |-> <<>>, body |-> <<>>, outputs |-> <<>>], linted, template),
     Node([kind |-> "Workflow", name |-> "w", called |-> FALSE,
           inputs |-> <<OutlineDecl("x", linted, template)>>,
           body |-> <<Node([kind |-> "Scatter", name |-> "s",
                            body |-> <<Node([kind |-> "Call", name |-> "c",
                                             callee_id |-> <<"t">>], linted, template)>>],
                           linted, template),
                      Node([kind |-> "Conditional", name |-> "i",
                            body |-> <<OutlineDecl("y", linted, template)>>],
                           linted, template)>>,
           outputs |-> <<OutlineDecl("o", linted, template)>>], linted, template)}

OutlineTasks(linted, template) ==
    {Node([kind |-> "Task", name |-> "t", called |-> c,
           inputs |-> <<OutlineDecl("p", linted, template)>>, postinputs |-> <<>>,
           outputs |-> <<>>], linted, template) : c \in BOOLEAN}
    \cup {Node([kind |-> "Task", name |-> "u", called |-> c,
                inputs |-> <<>>, postinputs |-> <<>>, outputs |-> <<>>],
               linted, template) : c \in BOOLEAN}

OutlineImports(linted, template) ==
    {<<>>,
     <<[namespace |-> "n",
        doc |-> Node([kind |-> "Document", name |-> "m", workflow |-> None,
                      tasks |-> <<Node([kind |-> "Task", name |-> "v", called |-> FALSE,
                                        inputs |-> <<>>, postinputs |-> <<>>,
                                        outputs |-> <<>>], linted, template)>>,
                      imports |-> <<>>], linted, template)]>>}

OutlineNames == {"d", "w", "x", "s", "c", "i", "y", "o", "t", "p", "u", "m", "v"}

LintedSets == {{}, OutlineNames} \cup {{n} : n \in OutlineNames}

OutlineDocs ==
    UNION {
        {Node([kind |-> "Document", name |-> "d", workflow |-> w, tasks |-> ts,
               imports |-> imps], linted, template) :
            w \in OutlineWorkflows(linted, template),
            ts \in {q \in SeqsUpTo(OutlineTasks(linted, template), 2) :
                       Len(q) = 2 => q[1].name # q[2].name},
            imps \in OutlineImports(linted, template)} :
        linted \in LintedSets, template \in LintTemplates}

-----------------------------------------------------------------------------
(* CLI.py: cromwell, up to the launch.                                     *)

\* os.path.join on paths held as their components.
PathJoin(path, name) == path \o <<name>>

\* The keys of the user's options file that are not taken over.
ReservedOptions == {"final_workflow_log_dir", "use_relative_output_paths"}

\* A plausible slip: the user's options merged in whole.
CopyOptions_Update(cromwell_options, more_options, keys) ==
    [k \in (DOMAIN cromwell_options) \cup keys |->
        IF k \in keys THEN more_options[k] ELSE cromwell_options[k]]

\* for k in more_options: ... cromwell_options[k] = more_options[k]
RECURSIVE CopyOptions(_, _, _)
CopyOptions(cromwell_options, more_options, keys) ==
    IF keys = {} THEN cromwell_options
    ELSE LET k == CHOOSE x \in keys : TRUE
         IN CopyOptions(IF k \notin ReservedOptions
                        THEN DictSet(cromwell_options, k, more_options[k])
                        ELSE cromwell_options,
                        more_options, keys \ {k})

\* The options written for Cromwell: the log directory, and the user's
\* options when an options file is given.
cromwell_options(rundir, options_file) ==
    LET own == DictSet(<<>>, "final_workflow_log_dir", PyStr(PathJoin(rundir, "cromwell")))
    IN IF options_file = None THEN own
       ELSE CopyOptions(own, options_file.json, DOMAIN options_file.json)

\* cromwell(uri, inputs, input_file, json_only, empty, check_quant, rundir,
\* options_file, ...) from the loaded document to the launch: how it ends
\* and the files written under the run directory, as the JSON they hold.
cromwell(doc, inputs, input_file, json_only, empty, rundir, options_file) ==
    LET validated == runner_input(doc, inputs, input_file, empty, "", TRUE)
    IN IF ~validated.ok THEN [ended |-> validated.err, status |-> 2, written |-> <<>>]
       ELSE IF json_only THEN [ended |-> "SystemExit", status |-> 0, written |-> <<>>]
       ELSE [ended |-> "launched", status |-> 0,
             written |-> DictSet(DictSet(<<>>, PathJoin(rundir, "inputs.json"),
                                         validated.val.input_env),
                                 PathJoin(PathJoin(rundir, "cromwell"), "options.json"),
                                 cromwell_options(rundir, options_file))]

\* The options files drawn as inputs: every dict over these keys and values.
OptionKeys == ReservedOptions \cup {"backend", "read_from_cache"}

OptionValues == {PyStr(<<"x">>), PyStr(<<"y">>)}

OptionsFiles ==
    {None} \cup {[tag |-> "json", json |-> f] :
                    f \in UNION {[ks -> OptionValues] : ks \in SUBSET OptionKeys}}

\* The run directories provision_run_dir hands back.
RunDirs == {<<"r">>, <<"r", "1">>}

-----------------------------------------------------------------------------
(* Specification of the command line front end.                            *)

\* The module has been imported: quant_warning = False, nothing called yet.
InitCLI ==
    /\ quant_warning = FALSE
    /\ cliCall = None
    /\ cliOut = None
    /\ declCall = None
    /\ declRet = None
    /\ task = None
    /\ outer_env = <<>>
    /\ type_env = <<>>
    /\ pc = 0
    /\ tcLog = <<>>
    /\ tcResult = "idle"
    /\ items = <<>>
    /\ ruleRet = None

\* main is called and its command fails with an error the except clause
\* catches.
MainStaticError ==
    /\ cliCall = None
    /\ \E check_quant \in BOOLEAN, debug \in BOOLEAN :
         \E exn \in StaticErrors(check_quant) :
            /\ cliCall' = [fn |-> "main", check_quant |-> check_quant, debug |-> debug,
                           exn |-> exn, quant_warning |-> quant_warning]
            /\ quant_warning' = main(check_quant, debug, exn, quant_warning).quant_warning
            /\ cliOut' = [stderr |-> main(check_quant, debug, exn, quant_warning).stderr,
                          raised |-> main(check_quant, debug, exn, quant_warning).raised,
                          status |-> main(check_quant, debug, exn, quant_warning).status]
    /\ UNCHANGED <<declVars, tcVars, trVars>>

\* main is called and its command fails with one validation error reported
\* somewhere in a source text.
MainValidationError ==
    /\ cliCall = None
    /\ \E check_quant \in BOOLEAN, text \in SourceTexts \ {<<>>} :
         \E pos \in SourcePositions(text) :
            LET exn == [kind |-> "UnknownIdentifier", pos |-> pos, source_text |-> text]
            IN /\ cliCall' = [fn |-> "main", check_quant |-> check_quant, debug |-> FALSE,
                              exn |-> exn, quant_warning |-> quant_warning]
               /\ quant_warning' = main(check_quant, FALSE, exn, quant_warning).quant_warning
               /\ cliOut' = [stderr |-> main(check_quant, FALSE, exn, quant_warning).stderr,
                             raised |-> main(check_quant, FALSE, exn, quant_warning).raised,
                             status |-> main(check_quant, FALSE, exn, quant_warning).status]
    /\ UNCHANGED <<declVars, tcVars, trVars>>

\* main is called and its command returns, raises an exception main does
\* not catch, or calls die.
MainCommand ==
    /\ cliCall = None
    /\ \E check_quant \in BOOLEAN, debug \in BOOLEAN, outcome \in CommandOutcomes :
            /\ cliCall' = [fn |-> "main", check_quant |-> check_quant, debug |-> debug,
                           exn |-> outcome, quant_warning |-> quant_warning]
            /\ quant_warning' = main(check_quant, debug, outcome, quant_warning).quant_warning
            /\ cliOut' = [stderr |-> main(check_quant, debug, outcome, quant_warning).stderr,
                          raised |-> main(check_quant, debug, outcome, quant_warning).raised,
                          status |-> main(check_quant, debug, outcome, quant_warning).status]
    /\ UNCHANGED <<declVars, tcVars, trVars>>

\* check prints the outline of a document: outline(doc, 0,
\* show_called=(doc.workflow is not None)).
Outline ==
    /\ cliCall = None
    /\ \E doc \in OutlineDocs :
            /\ cliCall' = [fn |-> "outline", doc |-> doc]
            /\ cliOut' = [out |-> outline(doc, 0, doc.workflow # None)]
    /\ UNCHANGED quant_warning
    /\ UNCHANGED <<declVars, tcVars, trVars>>

\* cromwell is called for a document with one task without inputs, or for an
\* empty document.
Cromwell ==
    /\ cliCall = None
    /\ \E tasks \in {<<>>, <<TaskTarget("t", <<>>)>>}, json_only \in BOOLEAN,
          rundir \in RunDirs, options_file \in OptionsFiles :
            /\ cliCall' = [fn |-> "cromwell", doc |-> [workflow |-> None, tasks |-> tasks],
                           json_only |-> json_only, rundir |-> rundir,
                           options_file |-> options_file]
            /\ cliOut' = cromwell([workflow |-> None, tasks |-> tasks], <<>>, None, json_only,
                                  <<>>, rundir, options_file)
    /\ UNCHANGED quant_warning
    /\ UNCHANGED <<declVars, tcVars, trVars>>

\* The caller of main catches what main raised and goes on in the same
\* process: the module keeps its globals.
ExitCaught ==
    /\ cliCall # None
    /\ cliCall.fn = "main"
    /\ cliCall' = None
    /\ cliOut' = None
    /\ UNCHANGED quant_warning
    /\ UNCHANGED <<declVars, tcVars, trVars>>

\* runner_input is called for a document with one task.
RunnerInput ==
    /\ cliCall = None
    /\ \E target \in RunTargets, inputs \in SeqsUpTo(CmdLineItems, MaxInputs),
          input_file \in InputFiles, empty \in SeqsUpTo(EmptyNames, MaxEmpty),
          check_required \in BOOLEAN :
            /\ cliCall' = [fn |-> "runner_input",
                           doc |-> [workflow |-> None, tasks |-> <<target>>],
                           inputs |-> inputs, input_file |-> input_file, empty |-> empty,
                           task |-> "", check_required |-> check_required]
            /\ cliOut' = runner_input([workflow |-> None, tasks |-> <<target>>], inputs,
                                      input_file, empty, "", check_required)
    /\ UNCHANGED quant_warning
    /\ UNCHANGED <<declVars, tcVars, trVars>>

\* runner_input is called without inputs, for any document and --task.
RunnerInputTarget ==
    /\ cliCall = None
    /\ \E doc \in Documents, task_name \in {"", "t", "x"} :
            /\ cliCall' = [fn |-> "runner_input", doc |-> doc, inputs |-> <<>>,
                           input_file |-> None, empty |-> <<>>, task |-> task_name,
                           check_required |-> TRUE]
            /\ cliOut' = runner_input(doc, <<>>, None, <<>>, task_name, TRUE)
    /\ UNCHANGED quant_warning
    /\ UNCHANGED <<declVars, tcVars, trVars>>

\* runner_input is called for a task with array inputs and one other input,
\* their keys repeated on the command line.
RunnerInputRepeated ==
    /\ cliCall = None
    /\ \E inputs \in SeqsUpTo(RepeatItems, MaxRepeats), input_file \in RepeatFiles,
          empty \in SeqsUpTo(EmptyNames, MaxEmpty), check_required \in BOOLEAN :
            /\ cliCall' = [fn |-> "runner_input",
                           doc |-> [workflow |-> None, tasks |-> <<RepeatTarget>>],
                           inputs |-> inputs, input_file |-> input_file, empty |-> empty,
                           task |-> "", check_required |-> check_required]
            /\ cliOut' = runner_input([workflow |-> None, tasks |-> <<RepeatTarget>>], inputs,
                                      input_file, empty, "", check_required)
    /\ UNCHANGED quant_warning
    /\ UNCHANGED <<declVars, tcVars, trVars>>

NextCLI ==
    \/ Cromwell
    \/ Outline
    \/ MainCommand
    \/ RunnerInputRepeated
    \/ MainStaticError
    \/ MainValidationError
    \/ ExitCaught
    \/ RunnerInput
    \/ RunnerInputTarget

SpecCLI == InitCLI /\ [][NextCLI]_vars

-----------------------------------------------------------------------------
(* What the claims about main and print_error refer to.                    *)

\* An invocation of main has ended in the except clause.
MainCalled == cliCall # None /\ cliCall.fn = "main"

MainFailed == MainCalled /\ BaseClass(cliCall.exn.kind) \in CaughtByMain

HintPrinted == \E i \in 1..Len(cliOut.stderr) : cliOut.stderr[i] = HintLine

\* The errors an invocation reports include a StaticTypeMismatch whose actual
\* type coerces to the expected one with check_quant=false: the error itself,
\* one of a MultipleValidationErrors, or the cause of an ImportError.
RECURSIVE HasRelaxedMismatch(_)
HasRelaxedMismatch(exn) ==
    IF exn = None THEN FALSE
    ELSE IF exn.kind = "MultipleValidationErrors"
    THEN \E i \in 1..Len(exn.exceptions) : HasRelaxedMismatch(exn.exceptions[i])
    ELSE IF exn.kind = "ImportError" THEN HasRelaxedMismatch(exn.cause)
    ELSE exn.kind = "StaticTypeMismatch" /\ Coerces(exn.actual, exn.expected, FALSE)

\* C14: an invocation of main that fails with a static error prints the
\* --no-quant-check hint if and only if quantifier checking is enabled and
\* the errors of that invocation include a relaxed-coercible
\* StaticTypeMismatch.
C14_HintIffRelaxedMismatch ==
    MainFailed => (HintPrinted <=> (cliCall.check_quant /\ HasRelaxedMismatch(cliCall.exn)))

\* main has printed the excerpt of one validation error with source text.
ExcerptPrinted ==
    /\ MainFailed
    /\ IsValidationError(cliCall.exn)
    /\ cliCall.exn.source_text # <<>>

\* The reported line as it stands in the source text.
ReportedLine == Split(cliCall.exn.source_text)[cliCall.exn.pos.line]

\* Where the span ends on the reported line: the position's end_column, or
\* one past the line's last character when the position ends on a later line.
SpanEnd ==
    IF cliCall.exn.pos.end_line > cliCall.exn.pos.line
    THEN Len(ReportedLine) + 1
    ELSE cliCall.exn.pos.end_column

IsBlank(c) == c = " " \/ c = "\t"

\* The carets of an underline that stops at the last character of the span
\* that is not a blank and has one caret at least.
TrimmedCarets ==
    LET col == cliCall.exn.pos.column
        ks == {1} \cup {k \in 1..(SpanEnd - col) : ~IsBlank(ReportedLine[col + k - 1])}
    IN CHOOSE k \in ks : \A j \in ks : j <= k

\* C15 as stated: the reported line is printed and under it column-1 blanks
\* and exactly end_column - column carets, the end clamped to the reported
\* line's last character when the position ends on a later line.
C15_UnderlineExact ==
    ExcerptPrinted =>
        /\ cliOut.stderr[2].text = Rep(" ", 4) \o ReportedLine
        /\ cliOut.stderr[3].text =
              Rep(" ", 4) \o Rep(" ", cliCall.exn.pos.column - 1)
                  \o Rep("^", SpanEnd - cliCall.exn.pos.column)

\* C15, amended: the reported line is printed with its tabs as blanks, and
\* under it column-1 blanks and carets from column up to the last character
\* of the span that is not a blank, one caret at least.
C15_UnderlineTrimmed ==
    ExcerptPrinted =>
        /\ cliOut.stderr[2].text = Rep(" ", 4) \o ReplaceTabs(ReportedLine)
        /\ cliOut.stderr[3].text =
              Rep(" ", 4) \o Rep(" ", cliCall.exn.pos.column - 1)
                  \o Rep("^", TrimmedCarets)

\* An error whose position ends on a later line has been printed, the
\* reported line ending in a blank: the underline is shorter than the line.
C15_Witness ==
    /\ ExcerptPrinted
    /\ cliCall.exn.pos.end_line > cliCall.exn.pos.line
    /\ ReportedLine[Len(ReportedLine)] = " "
    /\ TrimmedCarets < SpanEnd - cliCall.exn.pos.column

-----------------------------------------------------------------------------
(* What the claims about runner_input refer to.                            *)

\* A call of runner_input has ended, its target resolved.
RunnerInputDone ==
    /\ cliCall # None
    /\ cliCall.fn = "runner_input"
    /\ ResolveTarget(cliCall.doc, cliCall.task).ok

CallTarget == ResolveTarget(cliCall.doc, cliCall.task).val

\* The declarations of the inputs named in the --empty list.
EmptiedDecls ==
    {InputDecl(CallTarget, cliCall.empty[i]) :
        i \in {j \in 1..Len(cliCall.empty) : HasInput(CallTarget, cliCall.empty[j])}}

\* C16: an input declared with the nonempty quantifier, as the
\* quantified_decl rule produces it, is never bound to the empty array:
\* runner_input with its name in the --empty list ends with an error, and
\* runner_input returns only when every --empty name is an Array input
\* without the nonempty quantifier.
C16_NonemptyNeverEmptied ==
    RunnerInputDone =>
        /\ (\E d \in EmptiedDecls : d.nonempty) => ~cliOut.ok
        /\ cliOut.ok => \A d \in EmptiedDecls : IsArray(d.type) /\ ~d.nonempty

-----------------------------------------------------------------------------
(* What the claim about the rendering of a Decl refers to.                 *)

\* A Decl has been rendered.
DeclRendered == declCall # None /\ declCall.tag = "__str__"

\* The rendering the declaration was written as: the type, `+` when
\* nonempty, `?` when optional, the name, and the initializer if any.
SourceFaithful(d) ==
    TypeStrBare(d.type) \o (IF d.nonempty THEN <<"+">> ELSE <<>>)
        \o (IF d.optional THEN <<"?">> ELSE <<>>) \o <<" ">> \o <<d.name>>
        \o (IF d.expr = None THEN <<>> ELSE <<" ", "=", " ">> \o ExprStr(d.expr))

\* Every Decl the constructor accepts.
AllDeclsConstructible ==
    {DeclInit(x[1], x[2], x[3], x[4], x[5], x[6]).val :
        x \in {y \in Positions \X Types \X Names \X BOOLEAN \X BOOLEAN
                        \X ({None} \cup {Ident(n) : n \in Names}) :
                  DeclInit(y[1], y[2], y[3], y[4], y[5], y[6]).ok}}

\* C17: the rendering of a Decl shows its type with the quantifier suffix,
\* its name and its initializer, and no Decl that differs from it in
\* optional or nonempty renders to the same string.
C17_SourceFaithfulStr ==
    DeclRendered =>
        /\ declRet.str = SourceFaithful(declRet.val)
        /\ \A d \in AllDeclsConstructible :
              (d.optional # declRet.val.optional \/ d.nonempty # declRet.val.nonempty)
                  => __str__(d) # declRet.str

-----------------------------------------------------------------------------
(* What the claim about the environments of Task.typecheck refers to.      *)

\* The chain s is the end of the chain t: t is s with bindings in front.
IsSuffix(s, t) == Len(s) <= Len(t) /\ SubSeq(t, Len(t) - Len(s) + 1, Len(t)) = s

\* C18: no step of Task.typecheck changes the environment it was given, and
\* every step leaves type_env as it was or with a binding more in front of
\* it, so that type_env always ends in the given environment and no binding
\* is ever removed, whether the call succeeds or fails.
C18_EnvOnlyGrows ==
    [][/\ outer_env' = outer_env
       /\ IsSuffix(type_env, type_env')
       /\ IsSuffix(outer_env', type_env')]_vars

\* typecheck has failed after binding, in front of a given environment that
\* is not empty, a name the given environment binds too.
C18_Witness ==
    /\ tcResult \notin {"idle", "running", "ok"}
    /\ Len(outer_env) > 0
    /\ Len(type_env) > Len(outer_env)
    /\ \E i \in 1..(Len(type_env) - Len(outer_env)) : type_env[i].name \in EnvNames(outer_env)

-----------------------------------------------------------------------------
(* Specification of the coercion relation.                                 *)

\* Nothing has been asked yet.
InitCoerces ==
    /\ quant_warning = FALSE
    /\ cliCall = None
    /\ cliOut = None
    /\ declCall = None
    /\ declRet = None
    /\ task = None
    /\ outer_env = <<>>
    /\ type_env = <<>>
    /\ pc = 0
    /\ tcLog = <<>>
    /\ tcResult = "idle"
    /\ items = <<>>
    /\ ruleRet = None

\* exn.actual.coerces(exn.expected, check_quant=...)
CoercesCall ==
    /\ cliCall = None
    /\ \E actual \in QuantTypes, expected \in QuantTypes, check_quant \in BOOLEAN :
          /\ cliCall' = [fn |-> "coerces", actual |-> actual, expected |-> expected,
                         check_quant |-> check_quant]
          /\ cliOut' = Return(Coerces(actual, expected, check_quant))
    /\ UNCHANGED quant_warning
    /\ UNCHANGED <<declVars, tcVars, trVars>>

NextCoerces == CoercesCall

SpecCoerces == InitCoerces /\ [][NextCoerces]_vars

\* coerces has been asked with the given check_quant.
CoercesAsked(check_quant) ==
    cliCall # None /\ cliCall.fn = "coerces" /\ cliCall.check_quant = check_quant

\* The type without its quantifiers.
Bare(t) == Ty(t.base, t.depth)

\* C19: with check_quant=true every type coerces to itself, Int coerces to
\* Float, and Float, with or without a quantifier, never coerces to Int.
C19_StrictNumericWidening ==
    CoercesAsked(TRUE) =>
        /\ cliCall.actual = cliCall.expected => cliOut.val
        /\ (cliCall.actual = TInt /\ cliCall.expected = TFloat) => cliOut.val
        /\ (Bare(cliCall.actual) = TFloat /\ Bare(cliCall.expected) = TInt) => ~cliOut.val

\* Float has been asked to coerce to Int with check_quant=true and has not.
C19_Witness ==
    /\ CoercesAsked(TRUE)
    /\ cliCall.actual = TFloat
    /\ cliCall.expected = TInt
    /\ ~cliOut.val

\* C20: Array[T] never coerces to T, whatever check_quant is; T coerces to
\* Array[T] with check_quant=false and does not with check_quant=true.
C20_ArrayPromotion ==
    (cliCall # None /\ cliCall.fn = "coerces") =>
        /\ cliCall.actual = TArray(cliCall.expected) => ~cliOut.val
        /\ cliCall.expected = TArray(cliCall.actual) => (cliOut.val <=> ~cliCall.check_quant)

\* Int has been asked to coerce to Array[Int] with check_quant=false and has.
C20_Witness ==
    /\ CoercesAsked(FALSE)
    /\ cliCall.actual = TInt
    /\ cliCall.expected = TArray(TInt)
    /\ cliOut.val

-----------------------------------------------------------------------------
(* What the claims about the inputs of runner_input refer to.              *)

\* runner_input has returned the target and the input environment.
RunnerInputReturned == RunnerInputDone /\ cliOut.ok

\* The elements bound for a name before the command line is read: those of
\* the --empty list (none), else those of the JSON file, else nothing bound.
BoundBefore(name) ==
    IF \E i \in 1..Len(cliCall.empty) : cliCall.empty[i] = name THEN <<>>
    ELSE IF cliCall.input_file # None /\ EnvHas(cliCall.input_file.bindings, name)
    THEN EnvGet(cliCall.input_file.bindings, name).value
    ELSE <<>>

\* The values given for a name on the command line, in command-line order.
RECURSIVE GivenFor(_, _)
GivenFor(name, inputs) ==
    IF inputs = <<>> THEN <<>>
    ELSE IF SplitOnce(Head(inputs))[1] = name
    THEN <<Value(TInt, DecimalValue(SplitOnce(Head(inputs))[2]))>> \o GivenFor(name, Tail(inputs))
    ELSE GivenFor(name, Tail(inputs))

\* The array inputs of the target.
ArrayInputNames ==
    {<<CallTarget.inputs[i].name>> :
        i \in {j \in 1..Len(CallTarget.inputs) : IsArray(CallTarget.inputs[j].type)}}

\* C21: when runner_input returns, every array input named on the command
\* line is bound to the elements bound for it before, followed by the values
\* given for its key in command-line order, one element for each repetition.
C21_RepeatedKeysAppend ==
    RunnerInputReturned =>
        \A n \in ArrayInputNames :
            GivenFor(n, cliCall.inputs) # <<>> =>
                /\ EnvHas(cliOut.val.input_env, n)
                /\ EnvGet(cliOut.val.input_env, n).value
                       = BoundBefore(n) \o GivenFor(n, cliCall.inputs)

\* An array input bound by the JSON file has been given two different
\* values on the command line.
C21_Witness ==
    /\ RunnerInputReturned
    /\ cliCall.inputs = << <<"b", "=", "2">>, <<"b", "=", "1">> >>
    /\ EnvGet(cliOut.val.input_env, <<"b">>).value
           = <<Value(TInt, 7), Value(TInt, 2), Value(TInt, 1)>>

\* The names the call binds: those of the JSON file, of the --empty list and
\* of the keys of the command line.
NamedByCall ==
    {cliCall.input_file.bindings[i].name :
        i \in 1..(IF cliCall.input_file = None THEN 0 ELSE Len(cliCall.input_file.bindings))}
    \cup {cliCall.empty[i] : i \in 1..Len(cliCall.empty)}
    \cup {SplitOnce(cliCall.inputs[i])[1] : i \in 1..Len(cliCall.inputs)}

\* The required inputs of the target that the call binds in no way.
MissingRequired == RequiredInputs(CallTarget) \ NamedByCall

\* The inputs of the call are accepted when nothing is required of them.
InputsAccepted ==
    runner_input(cliCall.doc, cliCall.inputs, cliCall.input_file, cliCall.empty,
                 cliCall.task, FALSE).ok

EndedMissing == ~cliOut.ok /\ cliOut.err = "SystemExit" /\ cliOut.msg = "missing required inputs"

\* C22: with check_required, runner_input returns only with every required
\* input of the target bound; a required input bound by neither the JSON
\* file, --empty nor the command line ends the call with an error, which for
\* inputs otherwise accepted is "missing required inputs" naming exactly the
\* missing ones; without check_required that error never happens.
C22_RequiredInputsChecked ==
    RunnerInputDone =>
        /\ (cliCall.check_required /\ cliOut.ok) =>
               \A n \in RequiredInputs(CallTarget) : EnvHas(cliOut.val.input_env, n)
        /\ (cliCall.check_required /\ MissingRequired # {}) =>
               /\ ~cliOut.ok
               /\ InputsAccepted => (EndedMissing /\ cliOut.missing = MissingRequired)
        /\ ~cliCall.check_required => (~EndedMissing /\ cliOut.ok = InputsAccepted)

\* A call that binds one of two required inputs ends naming the other one.
C22_Witness ==
    /\ RunnerInputDone
    /\ cliCall.check_required
    /\ InputsAccepted
    /\ Len(cliCall.inputs) = 2
    /\ MissingRequired = {<<"a">>}
    /\ EndedMissing
    /\ cliOut.missing = {<<"a">>}

\* The inputs of the target that are not arrays.
ScalarInputNames ==
    {<<CallTarget.inputs[i].name>> :
        i \in {j \in 1..Len(CallTarget.inputs) : ~IsArray(CallTarget.inputs[j].type)}}

\* How often the JSON file and the command line bind a name.
TimesBound(name) ==
    Cardinality({i \in 1..Len(cliCall.inputs) : SplitOnce(cliCall.inputs[i])[1] = name})
    + (IF cliCall.input_file # None /\ EnvHas(cliCall.input_file.bindings, name) THEN 1 ELSE 0)

\* Every item of the command line would be accepted as the only input, and
\* so would the JSON file and the --empty list.
EachItemAccepted ==
    /\ runner_input(cliCall.doc, <<>>, cliCall.input_file, cliCall.empty, cliCall.task, FALSE).ok
    /\ \A i \in 1..Len(cliCall.inputs) : AddInput(CallTarget, cliCall.inputs[i], <<>>).ok

EndedDuplicated ==
    ~cliOut.ok /\ cliOut.err = "SystemExit" /\ cliOut.msg = "non-array input duplicated"

\* C23: runner_input returns only when the JSON file and the command line
\* together bind each non-array input at most once, and then the input holds
\* the one value given; when a well-formed command line names an already
\* bound non-array input again, the call ends with the "duplicated" error.
C23_NonArrayBoundOnce ==
    RunnerInputDone =>
        /\ cliOut.ok =>
               \A n \in ScalarInputNames :
                   /\ TimesBound(n) <= 1
                   /\ GivenFor(n, cliCall.inputs) # <<>> =>
                          <<EnvGet(cliOut.val.input_env, n)>> = GivenFor(n, cliCall.inputs)
        /\ (EachItemAccepted /\ \E n \in ScalarInputNames :
                                   TimesBound(n) > 1 /\ GivenFor(n, cliCall.inputs) # <<>>)
               => EndedDuplicated

\* Both ways of binding twice: the JSON file binds the input and the command
\* line names it, or the command line names it twice.
C23_Witness ==
    /\ RunnerInputDone
    /\ EndedDuplicated
    /\ cliCall.input_file # None
    /\ EnvHas(cliCall.input_file.bindings, <<"c">>)
    /\ cliCall.inputs = << <<"a", "=", "1">>, <<"c", "=", "2">> >>

C23_WitnessTwice ==
    /\ RunnerInputDone
    /\ EndedDuplicated
    /\ cliCall.input_file = None
    /\ cliCall.inputs = << <<"c", "=", "1">>, <<"c", "=", "2">> >>

-----------------------------------------------------------------------------
(* What the claim about the target of runner_input refers to.              *)

RunnerInputCalled == cliCall # None /\ cliCall.fn = "runner_input"

\* The tasks of the document that have the name asked for.
TasksNamed ==
    {cliCall.doc.tasks[i] :
        i \in {j \in 1..Len(cliCall.doc.tasks) : cliCall.doc.tasks[j].name = cliCall.task}}

\* The call has ended with one of the errors of the resolution.
EndedUnresolved ==
    /\ ~cliOut.ok
    /\ cliOut.err = "SystemExit"
    /\ cliOut.status = 2
    /\ cliOut.msg \in {"no such task in document", "Empty WDL document",
                       "specify --task for WDL document with multiple tasks and no workflow"}

\* C24: a task name given selects the task of that name, or ends the call
\* when there is none, whether or not the document has a workflow; with no
\* name the workflow is the target, else the only task; a document without a
\* workflow and with no task or several ends the call; no call returns
\* without a target of the document.
C24_TargetPriority ==
    RunnerInputCalled =>
        /\ (cliCall.task # "" /\ TasksNamed # {}) =>
               /\ ~EndedUnresolved
               /\ cliOut.ok => cliOut.val.target \in TasksNamed
        /\ (cliCall.task # "" /\ TasksNamed = {}) =>
               (EndedUnresolved /\ cliOut.msg = "no such task in document")
        /\ (cliCall.task = "" /\ cliCall.doc.workflow # None) =>
               /\ ~EndedUnresolved
               /\ cliOut.ok => cliOut.val.target = cliCall.doc.workflow
        /\ (cliCall.task = "" /\ cliCall.doc.workflow = None /\ Len(cliCall.doc.tasks) = 1) =>
               /\ ~EndedUnresolved
               /\ cliOut.ok => cliOut.val.target = cliCall.doc.tasks[1]
        /\ (cliCall.task = "" /\ cliCall.doc.workflow = None /\ Len(cliCall.doc.tasks) # 1) =>
               (EndedUnresolved /\ cliOut.msg # "no such task in document")

\* A task is asked for by name in a document that has a workflow and another
\* task as well.
C24_Witness ==
    /\ RunnerInputCalled
    /\ cliCall.task = "t"
    /\ cliCall.doc.workflow # None
    /\ Len(cliCall.doc.tasks) = 2
    /\ cliOut.ok
    /\ cliOut.val.target.tag = "Task"
    /\ cliOut.val.target.name = "t"

-----------------------------------------------------------------------------
(* What the claim about the end of main refers to.                         *)

C25_WitnessDebug ==
    /\ MainFailed
    /\ cliCall.debug
    /\ cliOut.raised = "MultipleValidationErrors"

-----------------------------------------------------------------------------
(* What the claim about outline refers to.                                 *)

OutlineCalled == cliCall # None /\ cliCall.fn = "outline"

\* The nodes outline descends into from a node, and all the nodes below it.
Children(obj) == {Descents(obj, 0)[i].dobj : i \in 1..Len(Descents(obj, 0))}

RECURSIVE Descendants(_)
Descendants(obj) == Children(obj) \cup UNION {Descendants(c) : c \in Children(obj)}

OutlinedNodes == {cliCall.doc} \cup Descendants(cliCall.doc)

\* The first word of the heading line of a node; a Document and a Decl have
\* no heading line.
HeadWord(obj) ==
    CASE obj.kind = "Workflow" -> "workflow"
      [] obj.kind = "Task" -> "task"
      [] obj.kind = "Call" -> "call"
      [] obj.kind = "Scatter" -> "scatter"
      [] obj.kind = "Conditional" -> "if"
      [] OTHER -> "none"

\* Where the heading line and the lint lines of a node stand in the output;
\* the names and the lint messages of the documents drawn tell the nodes
\* apart.
HeadIdx(obj) ==
    {i \in 1..Len(cliOut.out) :
        /\ cliOut.out[i].what = HeadWord(obj)
        /\ (obj.kind # "Conditional" => cliOut.out[i].name = obj.name)}

LintIdx(obj) ==
    {i \in 1..Len(cliOut.out) : cliOut.out[i].what = "lint" /\ cliOut.out[i].msg = obj.name}

\* A lint line prints this entry.
Prints(i, entry) ==
    /\ cliOut.out[i].line = entry.pos.line
    /\ cliOut.out[i].column = entry.pos.column
    /\ cliOut.out[i].klass = entry.klass

\* The order in which the tasks of a document are to be outlined.
TaskBefore(t1, t2) ==
    \/ t1.called /\ ~t2.called
    \/ t1.called = t2.called /\ NameRank(t1.name) < NameRank(t2.name)

\* C26: the outline holds every lint entry of every node exactly once and no
\* other lint line; the lint lines of a node are in the order of their
\* positions, after the node's heading line and before every line of the
\* nodes below it, and for a node with nothing below they follow the heading
\* directly; the tasks of a document are outlined called ones first, then by
\* name.
C26_LintOncePlacedSorted ==
    OutlineCalled =>
        /\ \A i \in 1..Len(cliOut.out) :
               cliOut.out[i].what = "lint" => \E n \in OutlinedNodes : i \in LintIdx(n)
        /\ \A n \in OutlinedNodes :
               /\ Cardinality(LintIdx(n)) = Len(n.lint)
               /\ \A k \in 1..Len(n.lint) :
                      Cardinality({i \in LintIdx(n) : Prints(i, n.lint[k])})
                          = Cardinality({j \in 1..Len(n.lint) : n.lint[j] = n.lint[k]})
               /\ \A i, j \in LintIdx(n) :
                      i < j => ~LexLess(<<cliOut.out[j].line, cliOut.out[j].column>>,
                                        <<cliOut.out[i].line, cliOut.out[i].column>>)
               /\ \A i \in LintIdx(n) :
                      /\ \A h \in HeadIdx(n) : h < i
                      /\ \A d \in Descendants(n) : \A k \in HeadIdx(d) \cup LintIdx(d) : i < k
               /\ (Children(n) = {} /\ HeadIdx(n) # {}) =>
                      \A h \in HeadIdx(n) : LintIdx(n) = (h + 1)..(h + Len(n.lint))
               /\ n.kind = "Document" =>
                      \A a, b \in 1..Len(n.tasks) :
                          /\ Cardinality(HeadIdx(n.tasks[a])) = 1
                          /\ TaskBefore(n.tasks[a], n.tasks[b]) =>
                                 \A h1 \in HeadIdx(n.tasks[a]), h2 \in HeadIdx(n.tasks[b]) :
                                     h1 < h2

\* A document has been outlined whose workflow has nodes below it and two
\* lint entries given against the order of their positions, and whose tasks
\* are listed with the one not called first.
C26_Witness ==
    /\ OutlineCalled
    /\ cliCall.doc.workflow # None
    /\ Len(cliCall.doc.workflow.body) = 2
    /\ Len(cliCall.doc.workflow.lint) = 2
    /\ cliCall.doc.workflow.lint[1].klass = "A"
    /\ cliCall.doc.workflow.lint[2].klass = "B"
    /\ Len(cliCall.doc.tasks) = 2
    /\ ~cliCall.doc.tasks[1].called
    /\ cliCall.doc.tasks[2].called
    /\ Len(cliCall.doc.imports) = 1
    /\ cliOut.out[1].what = "lint"
    /\ cliOut.out[2].what = "lint"
    /\ cliOut.out[3].what = "workflow"
    /\ cliOut.out[4].klass = "B"
    /\ cliOut.out[5].klass = "A"

-----------------------------------------------------------------------------
(* What the claim about the Cromwell options refers to.                    *)

\* cromwell has written its files and is about to launch Cromwell.
CromwellLaunched == cliCall # None /\ cliCall.fn = "cromwell" /\ cliOut.ended = "launched"

WrittenOptions ==
    cliOut.written[PathJoin(PathJoin(cliCall.rundir, "cromwell"), "options.json")]

\* The options of the user's options file, none without one.
UserOptions == IF cliCall.options_file = None THEN <<>> ELSE cliCall.options_file.json

\* C27: in the options written, final_workflow_log_dir is the cromwell
\* subdirectory of the run directory, use_relative_output_paths is not set,
\* and the other keys are exactly the other keys of the user's options file,
\* each with the user's value.
C27_OptionsWritten ==
    CromwellLaunched =>
        /\ WrittenOptions["final_workflow_log_dir"]
               = PyStr(cliCall.rundir \o <<"cromwell">>)
        /\ "use_relative_output_paths" \notin DOMAIN WrittenOptions
        /\ (DOMAIN WrittenOptions) \ {"final_workflow_log_dir"}
               = (DOMAIN UserOptions) \ ReservedOptions
        /\ \A k \in (DOMAIN UserOptions) \ ReservedOptions : WrittenOptions[k] = UserOptions[k]

\* The user's options file sets both reserved keys and another one.
C27_Witness ==
    /\ CromwellLaunched
    /\ cliCall.options_file # None
    /\ DOMAIN UserOptions = ReservedOptions \cup {"backend"}
    /\ UserOptions["final_workflow_log_dir"] = PyStr(<<"x">>)
    /\ WrittenOptions["backend"] = PyStr(<<"x">>)

====
